---------------------------- MODULE Spec2Model ----------------------------
(***************************************************************************)
(* A model of the Markdown transformation engine of lexical:               *)
(*   - the bulk importer      (lexical-markdown/src/v2/MarkdownImport.js)  *)
(*   - the exporter           (lexical-markdown/src/v2/MarkdownExport.js)  *)
(*   - the transformer tables (MarkdownTransformers, src/unnamed/part_002) *)
(*   - the live transformer   (MarkdownPlugin, src/unnamed/part_001)       *)
(*                                                                         *)
(* A string is a sequence of one-character strings.  Indices into strings  *)
(* are 0-based as in the source: CharAt(s, i) is s[i] of the JavaScript.   *)
(***************************************************************************)
EXTENDS Integers, Sequences, FiniteSets, TLC

VARIABLES
    markdown,    \* the Markdown string: drawn at the start or typed so far
    lineIndex,   \* the index i of the importer's loop over the lines
    root,        \* the children of the root node: a sequence of block nodes
    output,      \* the string last returned by the exporter
    firstOutput, \* the string returned by the first export of a round trip
    pc,          \* the position of the import/export driver
    selection,   \* the editor's selection
    undoStack,   \* the history plugin's undo stack
    redoStack,   \* the history plugin's redo stack
    lastUpdate,  \* what the last update cycle of the editor did
    registeredNodes, \* the node kinds the editor was created with
    isHighlighting,  \* the flag of the code highlighting transforms
    dirtyElements,   \* the blocks whose transform the update cycle still runs
    updates          \* the nested updates the update cycle still runs

highlightVars == <<isHighlighting, dirtyElements, updates>>

vars == <<markdown, lineIndex, root, output, firstOutput, pc, selection,
          undoStack, redoStack, lastUpdate, registeredNodes, highlightVars>>

liveVars == <<selection, undoStack, redoStack, lastUpdate, registeredNodes,
              highlightVars>>

\* no code highlighting is under way
HighlightingIdle ==
    /\ isHighlighting = FALSE
    /\ dirtyElements = {}
    /\ updates = <<>>

\* the node kinds the transformers create: the $create... functions that
\* the transformers and the live transformer import
RequiredNodes ==
    {"heading", "quote", "code", "list", "listitem", "horizontalrule",
     "table", "tablerow", "tablecell", "link"}

---------------------------------------------------------------------------
(* Strings                                                                 *)

Undefined == "undefined"

\* the grave accent cannot be written in a string literal of this language:
\* this one-element string stands for the character U+0060
Backtick == "GRAVE"

Min(S) == CHOOSE x \in S : \A y \in S : x <= y
Max(S) == CHOOSE x \in S : \A y \in S : x >= y

\* s[i] of JavaScript: undefined outside the string
CharAt(s, i) == IF i >= 0 /\ i < Len(s) THEN s[i + 1] ELSE Undefined

\* s.slice(a, b) and s.slice(a) of JavaScript, for 0 <= a
Slice(s, a, b) == SubSeq(s, a + 1, IF b < Len(s) THEN b ELSE Len(s))
SliceFrom(s, a) == SubSeq(s, a + 1, Len(s))

\* the character classes \s, \d and \w of the regular expressions
Whitespace == {" ", "\t", "\n"}
Digits == {"0", "1", "2", "3", "4", "5", "6", "7", "8", "9"}
WordChars == Digits \cup {"_"} \cup
    {"a", "b", "c", "d", "e", "f", "g", "h", "i", "j", "k", "l", "m",
     "n", "o", "p", "q", "r", "s", "t", "u", "v", "w", "x", "y", "z"}

RECURSIVE Concat(_)
\* array.join('') of an array of strings
Concat(ss) == IF ss = <<>> THEN <<>> ELSE Head(ss) \o Concat(Tail(ss))

RECURSIVE Join(_, _)
\* array.join(sep)
Join(ss, sep) ==
    IF ss = <<>> THEN <<>>
    ELSE IF Len(ss) = 1 THEN Head(ss)
    ELSE Head(ss) \o sep \o Join(Tail(ss), sep)

RECURSIVE Split(_, _)
\* string.split(sep) for a one-character separator
Split(s, sep) ==
    LET hits == {i \in 1..Len(s) : s[i] = sep}
    IN  IF hits = {} THEN <<s>>
        ELSE <<SubSeq(s, 1, Min(hits) - 1)>>
             \o Split(SubSeq(s, Min(hits) + 1, Len(s)), sep)

RECURSIVE Repeat(_, _)
\* string.repeat(n)
Repeat(s, n) == IF n <= 0 THEN <<>> ELSE s \o Repeat(s, n - 1)

RECURSIVE Number(_)
\* Number(digits) for a string of decimal digits
Number(ds) ==
    IF ds = <<>> THEN 0
    ELSE Number(SubSeq(ds, 1, Len(ds) - 1)) * 10
         + (CHOOSE d \in 0..9 : <<"0", "1", "2", "3", "4", "5", "6", "7",
                                   "8", "9">>[d + 1] = ds[Len(ds)])

RECURSIVE NumberToString(_)
\* `${n}` for a natural number
NumberToString(n) ==
    LET digit == <<"0", "1", "2", "3", "4", "5", "6", "7", "8", "9">>[(n % 10) + 1]
    IN  IF n < 10 THEN <<digit>> ELSE NumberToString(n \div 10) \o <<digit>>

\* isEqualSubString(stringA, aStart, tag, 0, tag.length)
isEqualSubString(stringA, aStart, tag) ==
    \A i \in 0..(Len(tag) - 1) : CharAt(stringA, aStart + i) = tag[i + 1]

\* the number of leading characters of s that lie in class
RECURSIVE LeadingRun(_, _)
LeadingRun(s, class) ==
    IF s # <<>> /\ Head(s) \in class THEN 1 + LeadingRun(Tail(s), class) ELSE 0

---------------------------------------------------------------------------
(* Nodes of the document tree                                              *)

TextNode(text, format) == [type |-> "text", text |-> text, format |-> format]
LinkNode(url, children) == [type |-> "link", url |-> url, children |-> children]
LineBreakNode == [type |-> "linebreak"]

ParagraphNode(children) == [type |-> "paragraph", children |-> children]
HeadingNode(level, children) ==
    [type |-> "heading", level |-> level, children |-> children]
QuoteNode(children) == [type |-> "quote", children |-> children]
CodeNode(language, children) ==
    [type |-> "code", language |-> language, children |-> children]
\* a list keeps its items flat; indent is what ListItemNode.getIndent returns
ListItemNode(indent, children) == [indent |-> indent, children |-> children]
ListNode(tag, start, items) ==
    [type |-> "list", tag |-> tag, start |-> start, items |-> items]
HorizontalRuleNode == [type |-> "hr"]
\* a table cell holds one paragraph; cell = the children of that paragraph
TableNode(rows) == [type |-> "table", rows |-> rows]

IsTextNode(n) == n.type = "text"
IsLinkNode(n) == n.type = "link"
IsLineBreakNode(n) == n.type = "linebreak"

RECURSIVE TextContent(_)
\* ElementNode.getTextContent over inline children
TextContent(children) ==
    IF children = <<>> THEN <<>>
    ELSE LET c == Head(children)
         IN  (IF IsTextNode(c) THEN c.text
              ELSE IF IsLinkNode(c) THEN TextContent(c.children)
              ELSE <<"\n">>) \o TextContent(Tail(children))

---------------------------------------------------------------------------
(* The transformer tables                                                  *)

\* TEXT_TRANSFORMERS, in registration order
TEXT_TRANSFORMERS == <<
    [format |-> <<"code">>,           tag |-> <<Backtick>>],
    [format |-> <<"bold", "italic">>, tag |-> <<"*", "*", "*">>],
    [format |-> <<"bold", "italic">>, tag |-> <<"_", "_", "_">>],
    [format |-> <<"bold">>,           tag |-> <<"*", "*">>],
    [format |-> <<"bold">>,           tag |-> <<"_", "_">>],
    [format |-> <<"strikethrough">>,  tag |-> <<"~", "~">>],
    [format |-> <<"italic">>,         tag |-> <<"*">>],
    [format |-> <<"italic">>,         tag |-> <<"_">>] >>

Range(f) == {f[i] : i \in DOMAIN f}

\* byTag[tag] of the importer index
byTag(tag) ==
    TEXT_TRANSFORMERS[Max({k \in DOMAIN TEXT_TRANSFORMERS :
                              TEXT_TRANSFORMERS[k].tag = tag})]

NoMatch == [found |-> FALSE]

\* the character class [<tag>\s] of fullMatchRegExpByTag
TagClass(tag) == Range(tag) \cup Whitespace

\* textContent.match(fullMatchRegExpByTag[tag]):
\*   (tag)(?![tag\s])(.*?[^tag\s])tag(?!tag)
\* leftmost start, then the shortest content
FullMatchRegExp(textContent, tag) ==
    LET L == Len(tag)
        \* j is the index of the last character of the content
        Ends(i) == {j \in (i + L)..(Len(textContent) - 1) :
                       /\ CharAt(textContent, j) \notin TagClass(tag)
                       /\ \A k \in (i + L)..(j - 1) : CharAt(textContent, k) # "\n"
                       /\ isEqualSubString(textContent, j + 1, tag)
                       /\ ~isEqualSubString(textContent, j + 1 + L, tag)}
        Starts == {i \in 0..(Len(textContent) - 1) :
                       /\ isEqualSubString(textContent, i, tag)
                       /\ CharAt(textContent, i + L) \notin TagClass(tag)
                       /\ Ends(i) # {}}
    IN  IF Starts = {} THEN NoMatch
        ELSE LET i == Min(Starts)
                 j == Min(Ends(i))
             IN  [found |-> TRUE, index |-> i, length |-> j + 1 + L - i,
                  tag |-> tag, content |-> Slice(textContent, i + L, j + 1)]

RECURSIVE OpenTagsFrom(_, _)
\* textContent.match(openTagsRegExp) from index i on: the global matches of
\* the alternation of all tags, the first alternative winning at a position
OpenTagsFrom(textContent, i) ==
    IF i >= Len(textContent) THEN <<>>
    ELSE LET alts == {k \in DOMAIN TEXT_TRANSFORMERS :
                         isEqualSubString(textContent, i, TEXT_TRANSFORMERS[k].tag)}
         IN  IF alts = {} THEN OpenTagsFrom(textContent, i + 1)
             ELSE LET tag == TEXT_TRANSFORMERS[Min(alts)].tag
                  IN  <<tag>> \o OpenTagsFrom(textContent, i + Len(tag))

RECURSIVE FirstFullMatch(_, _)
FirstFullMatch(textContent, openTagsMatch) ==
    IF openTagsMatch = <<>> THEN NoMatch
    ELSE LET fullMatch == FullMatchRegExp(textContent, Head(openTagsMatch))
         IN  IF fullMatch.found THEN fullMatch
             ELSE FirstFullMatch(textContent, Tail(openTagsMatch))

\* findOutermostMatch
findOutermostMatch(textContent) ==
    FirstFullMatch(textContent, OpenTagsFrom(textContent, 0))

\* textContent.match(LINK_REG_EXP): (?:\[([^[]+)\])(?:\(([^(]+)\)),
\* leftmost start, both groups greedy
LinkRegExp(textContent) ==
    LET n == Len(textContent)
        \* u is the index of the closing parenthesis, k of the closing bracket
        Urls(k) == {u \in (k + 3)..(n - 1) :
                       /\ CharAt(textContent, u) = ")"
                       /\ \A x \in (k + 2)..(u - 1) :
                              CharAt(textContent, x) \notin {"(", "\n"}}
        Texts(i) == {k \in (i + 2)..(n - 1) :
                       /\ CharAt(textContent, k) = "]"
                       /\ \A x \in (i + 1)..(k - 1) :
                              CharAt(textContent, x) \notin {"[", "\n"}
                       /\ CharAt(textContent, k + 1) = "("
                       /\ Urls(k) # {}}
        Starts == {i \in 0..(n - 1) :
                       CharAt(textContent, i) = "[" /\ Texts(i) # {}}
    IN  IF Starts = {} THEN NoMatch
        ELSE LET i == Min(Starts)
                 k == Max(Texts(i))
                 u == Max(Urls(k))
             IN  [found |-> TRUE, index |-> i, length |-> u + 1 - i,
                  linkText |-> Slice(textContent, i + 1, k),
                  linkUrl |-> Slice(textContent, k + 2, u)]

---------------------------------------------------------------------------
(* The inline resolver of the bulk importer                                *)

RECURSIVE runLinkTransformers(_)
\* runLinkTransformers: the nodes that take the place of textNode
runLinkTransformers(textNode) ==
    LET text == textNode.text
        match == LinkRegExp(text)
    IN  IF ~match.found THEN <<textNode>>
        ELSE LET startIndex == match.index
                 endIndex == startIndex + match.length
                 linkTextNode == TextNode(match.linkText, textNode.format)
                 linkNode == LinkNode(match.linkUrl, <<linkTextNode>>)
             IN  (IF startIndex = 0 THEN <<>>
                  ELSE <<TextNode(Slice(text, 0, startIndex), textNode.format)>>)
                 \o <<linkNode>>
                 \o (IF endIndex < Len(text)
                     THEN runLinkTransformers(
                              TextNode(SliceFrom(text, endIndex), textNode.format))
                     ELSE <<>>)

\* a format loop that toggles every format of the transformer
ApplyFormatsToggled(format, transformerFormat) ==
    (format \ Range(transformerFormat)) \cup (Range(transformerFormat) \ format)

\* the format loop of runTextTransformers: a format the node has stays on
ApplyFormats(format, transformerFormat) == format \cup Range(transformerFormat)

\* a resolver that recurses into every matched run, inline code included
isInlineCodeNever(currentNode) == FALSE

\* currentNode.hasFormat('code'): the content of inline code is not resolved
isInlineCode(currentNode) == "code" \in currentNode.format

RECURSIVE runTextTransformers(_)
\* runTextTransformers of the importer: the nodes that take the place of
\* textNode (the node itself, split and formatted, and its new siblings)
runTextTransformers(textNode) ==
    LET textContent == textNode.text
        match == findOutermostMatch(textContent)
    IN  IF ~match.found THEN runLinkTransformers(textNode)
        ELSE LET startIndex == match.index
                 endIndex == startIndex + match.length
                 leading ==
                     IF startIndex = 0 THEN <<>>
                     ELSE <<TextNode(Slice(textContent, 0, startIndex),
                                     textNode.format)>>
                 currentNode ==
                     TextNode(match.content,
                              ApplyFormats(textNode.format, byTag(match.tag).format))
                 hasRemainder == endIndex < Len(textContent)
                 remainderNode ==
                     TextNode(SliceFrom(textContent, endIndex), textNode.format)
             IN  leading
                 \o (IF ~isInlineCode(currentNode)
                     THEN runTextTransformers(currentNode)
                     ELSE <<currentNode>>)
                 \o (IF hasRemainder THEN runTextTransformers(remainderNode)
                     ELSE <<>>)

---------------------------------------------------------------------------
(* The block transformers: the matchers                                    *)

\* a heading pattern without the upper limit of six number signs
HeadingRegExpAnyLevel(s) ==
    LET n == LeadingRun(s, {"#"})
    IN  IF n >= 1 /\ CharAt(s, n) \in Whitespace
        THEN [found |-> TRUE, length |-> n + 1, level |-> n]
        ELSE NoMatch

\* /^(#{1,6})\s/
HeadingRegExp(s) ==
    LET n == LeadingRun(s, {"#"})
    IN  IF n >= 1 /\ n <= 6 /\ CharAt(s, n) \in Whitespace
        THEN [found |-> TRUE, length |-> n + 1, level |-> n]
        ELSE NoMatch

\* /^>\s/
QuoteRegExp(s) ==
    IF CharAt(s, 0) = ">" /\ CharAt(s, 1) \in Whitespace
    THEN [found |-> TRUE, length |-> 2]
    ELSE NoMatch

Fence == <<Backtick, Backtick, Backtick>>

\* /^```(\w{1,10})?\s/
CodeRegExp(s) ==
    LET w == LeadingRun(SliceFrom(s, 3), WordChars)
    IN  IF /\ isEqualSubString(s, 0, Fence)
           /\ w <= 10
           /\ CharAt(s, 3 + w) \in Whitespace
        THEN [found |-> TRUE, length |-> 3 + w + 1,
              language |-> IF w = 0 THEN Undefined ELSE Slice(s, 3, 3 + w)]
        ELSE NoMatch

\* CODE_BLOCK_REG_EXP: /^```(\w{1,10})?\s?$/
CODE_BLOCK_REG_EXP(s) ==
    LET w == LeadingRun(SliceFrom(s, 3), WordChars)
    IN  IF /\ isEqualSubString(s, 0, Fence)
           /\ w <= 10
           /\ \/ Len(s) = 3 + w
              \/ Len(s) = 3 + w + 1 /\ CharAt(s, 3 + w) \in Whitespace
        THEN [found |-> TRUE, length |-> Len(s),
              language |-> IF w = 0 THEN Undefined ELSE Slice(s, 3, 3 + w)]
        ELSE NoMatch

\* /^(\s*)[-*+]\s/
UnorderedListRegExp(s) ==
    LET ws == LeadingRun(s, Whitespace)
    IN  IF CharAt(s, ws) \in {"-", "*", "+"} /\ CharAt(s, ws + 1) \in Whitespace
        THEN [found |-> TRUE, length |-> ws + 2, spaces |-> ws]
        ELSE NoMatch

\* /^(\s*)(\d{1,}).\s/ : the digits are greedy, the dot is any character
OrderedListRegExp(s) ==
    LET ws == LeadingRun(s, Whitespace)
        d == LeadingRun(SliceFrom(s, ws), Digits)
        ks == {k \in 1..d :
                  /\ CharAt(s, ws + k) \notin {Undefined, "\n"}
                  /\ CharAt(s, ws + k + 1) \in Whitespace}
    IN  IF ks # {}
        THEN [found |-> TRUE, length |-> ws + Max(ks) + 2, spaces |-> ws,
              number |-> Slice(s, ws, ws + Max(ks))]
        ELSE NoMatch

\* /^(---|\*\*\*|___)\s?$/
HrRegExp(s) ==
    IF /\ \E c \in {"-", "*", "_"} : isEqualSubString(s, 0, <<c, c, c>>)
       /\ \/ Len(s) = 3
          \/ Len(s) = 4 /\ CharAt(s, 3) \in Whitespace
    THEN [found |-> TRUE, length |-> Len(s)]
    ELSE NoMatch

\* TABLE_ROW_REG_EXP: /^(?:\|)(.+)(?:\|)\s?$/ : the group is greedy
TABLE_ROW_REG_EXP(s) ==
    LET n == Len(s)
        noBreak == \A i \in 0..(n - 1) : CharAt(s, i) # "\n"
    IN  IF CharAt(s, 0) = "|" /\ n >= 3 /\ CharAt(s, n - 1) = "|" /\ noBreak
        THEN [found |-> TRUE, length |-> n, cells |-> Slice(s, 1, n - 1)]
        ELSE IF /\ CharAt(s, 0) = "|" /\ n >= 4 /\ CharAt(s, n - 2) = "|"
                /\ CharAt(s, n - 1) \in Whitespace
                /\ \A i \in 0..(n - 2) : CharAt(s, i) # "\n"
        THEN [found |-> TRUE, length |-> n, cells |-> Slice(s, 1, n - 2)]
        ELSE NoMatch

\* BLOCK_TRANSFORMERS, in registration order: the names of the transformers
BLOCK_TRANSFORMERS ==
    <<"HEADING", "QUOTE", "CODE", "UNORDERED_LIST", "ORDERED_LIST", "HR", "TABLE">>

\* lineText.match(matcher) for the matcher of transformer name
BlockMatch(name, s) ==
    CASE name = "HEADING" -> HeadingRegExp(s)
      [] name = "QUOTE" -> QuoteRegExp(s)
      [] name = "CODE" -> CodeRegExp(s)
      [] name = "UNORDERED_LIST" -> UnorderedListRegExp(s)
      [] name = "ORDERED_LIST" -> OrderedListRegExp(s)
      [] name = "HR" -> HrRegExp(s)
      [] name = "TABLE" -> TABLE_ROW_REG_EXP(s)

---------------------------------------------------------------------------
(* The block transformers: the importers                                   *)

\* seq with its element i replaced by the elements of by
ReplaceAt(seq, i, by) == SubSeq(seq, 1, i - 1) \o by \o SubSeq(seq, i + 1, Len(seq))

\* Amount of spaces that define indentation level
LIST_INDENT_SIZE == 4

\* createTableCell(textContent): the children of the paragraph of the cell
createTableCell(textContent) ==
    IF textContent = Undefined THEN <<>> ELSE <<TextNode(textContent, {})>>

\* mapToTableCells
mapToTableCells(textContent) ==
    LET match == TABLE_ROW_REG_EXP(textContent)
    IN  IF ~match.found \/ match.cells = <<>> THEN NoMatch
        ELSE LET texts == Split(match.cells, "|")
             IN  [found |-> TRUE,
                  cells |-> [i \in 1..Len(texts) |-> createTableCell(texts[i])]]

RECURSIVE AbsorbRows(_, _, _, _)
\* the backward loop of the TABLE importer over the siblings before index i:
\* the rows collected, the widest row, and the first sibling that is kept
AbsorbRows(rootNode, i, rows, maxCells) ==
    LET sibling == rootNode[i]
        cells == mapToTableCells(sibling.children[1].text)
    IN  IF i < 1 THEN [rows |-> rows, maxCells |-> maxCells, kept |-> i]
        ELSE IF sibling.type # "paragraph" THEN [rows |-> rows, maxCells |-> maxCells, kept |-> i]
        ELSE IF Len(sibling.children) # 1 THEN [rows |-> rows, maxCells |-> maxCells, kept |-> i]
        ELSE IF ~IsTextNode(sibling.children[1]) THEN [rows |-> rows, maxCells |-> maxCells, kept |-> i]
        ELSE IF ~cells.found THEN [rows |-> rows, maxCells |-> maxCells, kept |-> i]
        ELSE AbsorbRows(rootNode, i - 1, <<cells.cells>> \o rows,
                        IF Len(cells.cells) > maxCells THEN Len(cells.cells) ELSE maxCells)

\* the TABLE importer: the paragraph at index idx becomes a table that
\* takes in the table-row paragraphs right before it
TableReplace(rootNode, idx, matched) ==
    LET matchCells == mapToTableCells(matched)
        got == AbsorbRows(rootNode, idx - 1, <<matchCells.cells>>, Len(matchCells.cells))
        table == TableNode([r \in 1..Len(got.rows) |->
                     [i \in 1..got.maxCells |->
                         IF i <= Len(got.rows[r]) THEN got.rows[r][i]
                         ELSE createTableCell(Undefined)]])
    IN  IF ~matchCells.found THEN rootNode
        ELSE SubSeq(rootNode, 1, got.kept) \o <<table>>
             \o SubSeq(rootNode, idx + 1, Len(rootNode))

\* a listReplace that leaves every item at depth 0
ListIndentZero(match) == 0

\* the depth listReplace gives the new item
ListIndent(match) == match.spaces \div LIST_INDENT_SIZE

\* a listReplace that appends to any list before the line, whatever its tag
ListMergesAnyTag(previousNode, listTag) == previousNode.type = "list"

\* whether listReplace appends the item to the node before the paragraph
ListMerges(previousNode, listTag) ==
    previousNode.type = "list" /\ previousNode.tag = listTag

\* listReplace(listTag): the paragraph at index idx becomes a list item
listReplace(listTag, rootNode, idx, children, match) ==
    LET listItem == ListItemNode(ListIndent(match), children)
    IN  IF idx > 1 /\ ListMerges(rootNode[idx - 1], listTag)
        THEN LET previousNode == rootNode[idx - 1]
                 grown == [previousNode EXCEPT !.items = Append(@, listItem)]
             IN  SubSeq(rootNode, 1, idx - 2) \o <<grown>>
                 \o SubSeq(rootNode, idx + 1, Len(rootNode))
        ELSE ReplaceAt(rootNode, idx,
                 <<ListNode(listTag,
                            IF listTag = "ol" THEN Number(match.number) ELSE 1,
                            <<listItem>>)>>)

\* the importer (replacer) of transformer name, run on the paragraph at
\* index idx of the root with the nodes children to move into the new block
Replacer(name, rootNode, idx, children, match, lineText, isImport) ==
    CASE name = "HEADING" ->
            ReplaceAt(rootNode, idx, <<HeadingNode(match.level, children)>>)
      [] name = "QUOTE" -> ReplaceAt(rootNode, idx, <<QuoteNode(children)>>)
      [] name = "CODE" ->
            ReplaceAt(rootNode, idx, <<CodeNode(match.language, children)>>)
      [] name = "UNORDERED_LIST" -> listReplace("ul", rootNode, idx, children, match)
      [] name = "ORDERED_LIST" -> listReplace("ol", rootNode, idx, children, match)
      [] name = "HR" ->
            IF isImport THEN ReplaceAt(rootNode, idx, <<HorizontalRuleNode>>)
            ELSE ReplaceAt(rootNode, idx, <<HorizontalRuleNode, rootNode[idx]>>)
      [] name = "TABLE" -> TableReplace(rootNode, idx, Slice(lineText, 0, match.length))

---------------------------------------------------------------------------
(* The bulk importer                                                       *)

\* the first block transformer whose matcher matches the line, 0 if none
FirstBlockMatch(lineText) ==
    LET hits == {k \in DOMAIN BLOCK_TRANSFORMERS :
                    BlockMatch(BLOCK_TRANSFORMERS[k], lineText).found}
    IN  IF hits = {} THEN 0 ELSE Min(hits)

\* runBlockTransformers of the importer: the root after the line is added
runBlockTransformers(lineText, rootNode) ==
    LET k == FirstBlockMatch(lineText)
        name == BLOCK_TRANSFORMERS[k]
        match == BlockMatch(name, lineText)
        textNode == TextNode(IF k = 0 THEN lineText
                             ELSE SliceFrom(lineText, match.length), {})
        children == runTextTransformers(textNode)
        appended == Append(rootNode, ParagraphNode(<<textNode>>))
    IN  IF k = 0 THEN Append(rootNode, ParagraphNode(children))
        ELSE IF name = "TABLE" /\ ~mapToTableCells(Slice(lineText, 0, match.length)).found
        THEN Append(rootNode, ParagraphNode(children))
        ELSE Replacer(name, appended, Len(appended), children, match, lineText, TRUE)

\* a scan that runs on to the last closing fence instead of the first
CloseFenceIndexLast(lines, startLineIndex) ==
    LET closes == {e \in (startLineIndex + 1)..(Len(lines) - 1) :
                      CODE_BLOCK_REG_EXP(lines[e + 1]).found}
    IN  IF closes = {} THEN -1 ELSE Max(closes)

\* the index of the first line after startLineIndex that closes the fence,
\* -1 if there is none
CloseFenceIndex(lines, startLineIndex) ==
    LET closes == {e \in (startLineIndex + 1)..(Len(lines) - 1) :
                      CODE_BLOCK_REG_EXP(lines[e + 1]).found}
    IN  IF closes = {} THEN -1 ELSE Min(closes)

\* runCodeBlockTransformers: [codeBlockNode, shiftedIndex]
runCodeBlockTransformers(lines, startLineIndex) ==
    LET openMatch == CODE_BLOCK_REG_EXP(lines[startLineIndex + 1])
        endLineIndex == CloseFenceIndex(lines, startLineIndex)
    IN  IF openMatch.found /\ endLineIndex >= 0
        THEN [found |-> TRUE,
              codeBlockNode |->
                  CodeNode(openMatch.language,
                      <<TextNode(Join(SubSeq(lines, startLineIndex + 2, endLineIndex),
                                      <<"\n">>), {})>>),
              shiftedIndex |-> endLineIndex]
        ELSE [found |-> FALSE, shiftedIndex |-> startLineIndex]

RECURSIVE ImportLines(_, _, _)
\* the loop of the importer over the lines, from line i on
ImportLines(lines, i, rootNode) ==
    IF i >= Len(lines) THEN rootNode
    ELSE LET code == runCodeBlockTransformers(lines, i)
         IN  IF code.found
             THEN ImportLines(lines, code.shiftedIndex + 1,
                              Append(rootNode, code.codeBlockNode))
             ELSE ImportLines(lines, i + 1,
                              runBlockTransformers(lines[i + 1], rootNode))

\* the function createMarkdownImporter returns: the root after the import
importMarkdown(markdownString) ==
    ImportLines(Split(markdownString, "\n"), 0, <<>>)

---------------------------------------------------------------------------
(* The exporter                                                            *)

\* createTextTransformersIndex of the exporter: [format, tag] of the
\* transformers with a single format, in registration order
ExportIndex ==
    LET RECURSIVE Build(_)
        Build(k) ==
            IF k > Len(TEXT_TRANSFORMERS) THEN <<>>
            ELSE (IF Len(TEXT_TRANSFORMERS[k].format) = 1
                  THEN <<[format |-> TEXT_TRANSFORMERS[k].format[1],
                          tag |-> TEXT_TRANSFORMERS[k].tag]>>
                  ELSE <<>>) \o Build(k + 1)
    IN  Build(1)

NoNode == [type |-> "none"]

\* hasFormat(node, format) of the exporter
hasFormat(node, format) == IsTextNode(node) /\ format \in node.format

\* the first (last) descendant of an inline element, NoNode if it has none
Descendant(element, backward) ==
    IF element.children = <<>> THEN NoNode
    ELSE IF backward THEN element.children[Len(element.children)]
    ELSE element.children[1]

RECURSIVE SiblingLoop(_, _, _)
\* the while loop of getTextSibling, sibling being siblings[i]: the text
\* node it returns, NoNode for null; a sibling that is neither an element
\* nor a text node is never left, and the loop does not end
SiblingLoop(siblings, i, backward) ==
    IF i < 1 \/ i > Len(siblings) THEN [node |-> NoNode, ends |-> TRUE]
    ELSE LET sibling == siblings[i]
             step == IF backward THEN i - 1 ELSE i + 1
         IN  IF IsLinkNode(sibling)
             THEN IF IsTextNode(Descendant(sibling, backward))
                  THEN [node |-> Descendant(sibling, backward), ends |-> TRUE]
                  ELSE IF step >= 1 /\ step <= Len(siblings) /\ IsTextNode(siblings[step])
                  THEN [node |-> siblings[step], ends |-> TRUE]
                  ELSE SiblingLoop(siblings, step, backward)
             ELSE IF IsTextNode(sibling) THEN [node |-> sibling, ends |-> TRUE]
             ELSE [node |-> NoNode, ends |-> FALSE]

\* getTextSibling(node, backward) for the node at index i of children;
\* outer and o give the place of the inline parent (a link) in its own
\* parent when the node is a child of one, o = 0 when it is not
getTextSibling(children, i, outer, o, backward) ==
    LET step == IF backward THEN i - 1 ELSE i + 1
        ostep == IF backward THEN o - 1 ELSE o + 1
    IN  IF step >= 1 /\ step <= Len(children)
        THEN SiblingLoop(children, step, backward)
        ELSE IF o > 0 THEN SiblingLoop(outer, ostep, backward)
        ELSE [node |-> NoNode, ends |-> TRUE]

\* an exporter that does not look at the siblings of a text node
TagSuppressedNever(sibling, format) == FALSE

\* whether exportTextNode leaves the opening (closing) tag of a format out:
\* the text sibling before (after) the node carries the format
TagSuppressed(sibling, format) == hasFormat(sibling, format)

RECURSIVE ApplyTags(_, _, _, _, _, _)
\* the loop of exportTextNode over the index from entry k on
ApplyTags(node, out, applied, k, previousNode, nextNode) ==
    IF k > Len(ExportIndex) THEN out
    ELSE LET format == ExportIndex[k].format
             tag == ExportIndex[k].tag
         IN  IF hasFormat(node, format) /\ format \notin applied
             THEN ApplyTags(node,
                      (IF TagSuppressed(previousNode, format) THEN <<>> ELSE tag)
                      \o out
                      \o (IF TagSuppressed(nextNode, format) THEN <<>> ELSE tag),
                      applied \cup {format}, k + 1, previousNode, nextNode)
             ELSE ApplyTags(node, out, applied, k + 1, previousNode, nextNode)

\* exportTextNode(node, textContent, parentNode, textTransformers)
exportTextNode(node, textContent, children, i, outer, o) ==
    ApplyTags(node, textContent, {}, 1,
              getTextSibling(children, i, outer, o, TRUE).node,
              getTextSibling(children, i, outer, o, FALSE).node)

\* exportChildren(node, textTransformersIndex) over the children of node
exportChildren(children) ==
    LET piece(i) ==
            LET child == children[i]
            IN  IF IsLineBreakNode(child) THEN <<"\n">>
                ELSE IF IsTextNode(child)
                THEN exportTextNode(child, child.text, children, i, <<>>, 0)
                ELSE LET linkContent == <<"[">> \o TextContent(child.children)
                                        \o <<"]", "(">> \o child.url \o <<")">>
                     IN  IF Len(child.children) = 1 /\ IsTextNode(child.children[1])
                         THEN exportTextNode(child.children[1], linkContent,
                                             child.children, 1, children, i)
                         ELSE linkContent
    IN  Concat([i \in 1..Len(children) |-> piece(i)])

\* hasFormat(node, format) holds for a format of the exporter's index: the
\* loop of exportTextNode calls getTextSibling for the node
SearchesSiblings(node) ==
    \E k \in DOMAIN ExportIndex : hasFormat(node, ExportIndex[k].format)

\* both calls of getTextSibling that exportTextNode makes for the node at
\* index i of children leave their while loop
SiblingSearchEnds(children, i, outer, o) ==
    /\ getTextSibling(children, i, outer, o, TRUE).ends
    /\ getTextSibling(children, i, outer, o, FALSE).ends

\* exportChildren returns for these children: every sibling search that
\* exportTextNode starts for one of them ends
exportChildrenEnds(children) ==
    \A i \in 1..Len(children) :
        LET child == children[i]
        IN  IF IsTextNode(child)
            THEN SearchesSiblings(child) => SiblingSearchEnds(children, i, <<>>, 0)
            ELSE IF /\ IsLinkNode(child)
                    /\ Len(child.children) = 1
                    /\ IsTextNode(child.children[1])
            THEN SearchesSiblings(child.children[1]) =>
                     SiblingSearchEnds(child.children, 1, children, i)
            ELSE TRUE

\* the function createMarkdownExporter returns comes back with a string
exportMarkdownEnds(rootNode) ==
    \A b \in 1..Len(rootNode) :
        LET node == rootNode[b]
        IN  CASE node.type \in {"paragraph", "heading", "quote"} ->
                    exportChildrenEnds(node.children)
              [] node.type = "list" ->
                    \A k \in 1..Len(node.items) :
                        exportChildrenEnds(node.items[k].children)
              [] node.type = "table" ->
                    \A r \in 1..Len(node.rows) : \A c \in 1..Len(node.rows[r]) :
                        exportChildrenEnds(node.rows[r][c])
              [] OTHER -> TRUE

\* the position of item k among the items of its own list: the items of a
\* nested list are the neighbouring items of the same depth that no
\* shallower item separates
ListItemIndex(items, k) ==
    Cardinality({j \in 1..(k - 1) :
                    /\ items[j].indent = items[k].indent
                    /\ \A m \in j..k : items[m].indent >= items[k].indent})

\* the prefix listExport writes before an item
ListPrefix(listNode, k) ==
    IF listNode.tag = "ul" THEN <<"-", " ">>
    ELSE NumberToString((IF listNode.items[k].indent = 0 THEN listNode.start ELSE 1)
                        + ListItemIndex(listNode.items, k)) \o <<".", " ">>

\* listExport(listNode, exportChildren, 0)
listExport(listNode) ==
    Join([k \in 1..Len(listNode.items) |->
             Repeat(<<" ">>, listNode.items[k].indent * LIST_INDENT_SIZE)
             \o ListPrefix(listNode, k)
             \o exportChildren(listNode.items[k].children)],
         <<"\n">>)

\* the exporter of the CODE transformer
CodeExport(node) ==
    LET textContent == TextContent(node.children)
    IN  Fence
        \o (IF node.language = Undefined THEN <<>> ELSE node.language)
        \o (IF textContent # <<>> THEN <<"\n">> \o textContent ELSE <<>>)
        \o <<"\n">> \o Fence

\* the exporter of the TABLE transformer
TableExport(node) ==
    Join([r \in 1..Len(node.rows) |->
             <<"|">>
             \o Join([c \in 1..Len(node.rows[r]) |-> exportChildren(node.rows[r][c])],
                     <<"|">>)
             \o <<"|">>],
         <<"\n">>)

\* the exporter of the HR transformer
HrExport == <<"*", "*", "*">>

\* exportTopLevelElementOrDecorator: the first exporter that knows the node
exportTopLevelElementOrDecorator(node) ==
    CASE node.type = "heading" ->
            Repeat(<<"#">>, node.level) \o <<" ">> \o exportChildren(node.children)
      [] node.type = "quote" -> <<">", " ">> \o exportChildren(node.children)
      [] node.type = "code" -> CodeExport(node)
      [] node.type = "list" -> listExport(node)
      [] node.type = "hr" -> HrExport
      [] node.type = "table" -> TableExport(node)
      [] OTHER -> exportChildren(node.children)

\* the function createMarkdownExporter returns
exportMarkdown(rootNode) ==
    Join([i \in 1..Len(rootNode) |-> exportTopLevelElementOrDecorator(rootNode[i])],
         <<"\n">>)

---------------------------------------------------------------------------
(* The editor the live transformer is installed on.  The operations of the *)
(* document model (typing at the caret, formatting a selection, history)   *)
(* are not among the Markdown sources: they follow the description of the  *)
(* document-model collaborator.                                            *)

\* a collapsed selection inside the text node number child of the element
\* root[block] (or of its list item number item), with the formats the
\* next typed character gets
TextPoint(block, item, child, offset, format) ==
    [type |-> "text", block |-> block, item |-> item, child |-> child,
     offset |-> offset, format |-> format]

\* a collapsed selection on the element itself, before its child offset + 1
ElementPoint(block, item, offset, format) ==
    [type |-> "element", block |-> block, item |-> item, child |-> 0,
     offset |-> offset, format |-> format]

\* anchorNode.getParent().getChildren()
ParentChildren(rootNode, sel) ==
    LET parentNode == rootNode[sel.block]
    IN  IF parentNode.type = "list" THEN parentNode.items[sel.item].children
        ELSE parentNode.children

\* the root with the children of the anchor's parent replaced
WithChildren(rootNode, sel, children) ==
    LET parentNode == rootNode[sel.block]
    IN  [rootNode EXCEPT ![sel.block] =
            IF parentNode.type = "list"
            THEN [parentNode EXCEPT !.items[sel.item].children = children]
            ELSE [parentNode EXCEPT !.children = children]]

\* seq with the elements of by put in after its first i elements
InsertAt(seq, i, by) == SubSeq(seq, 1, i) \o by \o SubSeq(seq, i + 1, Len(seq))

\* one character typed at the caret: it joins the caret's text node when
\* that node has the caret's formats, and gets a text node of its own with
\* the caret's formats otherwise
insertText(rootNode, sel, c) ==
    LET children == ParentChildren(rootNode, sel)
        fresh == TextNode(<<c>>, sel.format)
        node == children[sel.child]
        left == Slice(node.text, 0, sel.offset)
        right == SliceFrom(node.text, sel.offset)
    IN  IF sel.type = "element"
        THEN [root |-> WithChildren(rootNode, sel,
                           InsertAt(children, sel.offset, <<fresh>>)),
              selection |-> TextPoint(sel.block, sel.item, sel.offset + 1, 1,
                                      sel.format)]
        ELSE IF node.format = sel.format \/ node.text = <<>>
        THEN [root |-> WithChildren(rootNode, sel,
                           [children EXCEPT ![sel.child] =
                               TextNode(left \o <<c>> \o right, sel.format)]),
              selection |-> [sel EXCEPT !.offset = sel.offset + 1]]
        ELSE [root |-> WithChildren(rootNode, sel,
                           ReplaceAt(children, sel.child,
                               (IF left = <<>> THEN <<>>
                                ELSE <<TextNode(left, node.format)>>)
                               \o <<fresh>>
                               \o (IF right = <<>> THEN <<>>
                                   ELSE <<TextNode(right, node.format)>>))),
              selection |-> TextPoint(sel.block, sel.item,
                                IF left = <<>> THEN sel.child ELSE sel.child + 1,
                                1, sel.format)]

\* the format a text node gets when format is applied to it
WithFormat(node, format) ==
    IF IsTextNode(node) THEN [node EXCEPT !.format = node.format \cup {format}]
    ELSE IF IsLinkNode(node)
    THEN [node EXCEPT !.children =
             [i \in 1..Len(node.children) |->
                 IF IsTextNode(node.children[i])
                 THEN [node.children[i] EXCEPT !.format = @ \cup {format}]
                 ELSE node.children[i]]]
    ELSE node

\* selection.formatText(format) for a selection from offset a of the text
\* node number oi to offset b of the text node number ci: the selected
\* text gets the format, a text node that is selected in part is split.
\* The result holds the children and the ends of the selection afterwards
formatText(children, oi, a, ci, b, format) ==
    LET first == children[oi]
        last == children[ci]
        firstSplit == a > 0 /\ a < Len(first.text)
        lastSplit == b > 0 /\ b < Len(last.text)
        firstNodes ==
            IF oi = ci /\ a >= b THEN <<first>>
            ELSE IF oi = ci
            THEN (IF a > 0 THEN <<TextNode(Slice(first.text, 0, a), first.format)>>
                  ELSE <<>>)
                 \o <<WithFormat(TextNode(Slice(first.text, a, b), first.format),
                                 format)>>
                 \o (IF b < Len(first.text)
                     THEN <<TextNode(SliceFrom(first.text, b), first.format)>>
                     ELSE <<>>)
            ELSE IF a = 0 THEN <<WithFormat(first, format)>>
            ELSE IF firstSplit
            THEN <<TextNode(Slice(first.text, 0, a), first.format),
                   WithFormat(TextNode(SliceFrom(first.text, a), first.format),
                              format)>>
            ELSE <<first>>
        between == [i \in 1..(ci - oi - 1) |-> WithFormat(children[oi + i], format)]
        lastNodes ==
            IF oi = ci THEN <<>>
            ELSE IF b = 0 THEN <<last>>
            ELSE IF lastSplit
            THEN <<WithFormat(TextNode(Slice(last.text, 0, b), last.format), format),
                   TextNode(SliceFrom(last.text, b), last.format)>>
            ELSE <<WithFormat(last, format)>>
        shift == IF oi = ci THEN (IF a > 0 /\ a < b THEN 1 ELSE 0)
                 ELSE (IF firstSplit THEN 1 ELSE 0)
    IN  [children |-> SubSeq(children, 1, oi - 1) \o firstNodes \o between
                      \o lastNodes \o SubSeq(children, ci + 1, Len(children)),
         oi |-> oi + shift,
         a |-> IF oi = ci THEN (IF a < b THEN 0 ELSE a)
               ELSE (IF firstSplit THEN 0 ELSE a),
         ci |-> ci + shift,
         b |-> IF oi = ci THEN b - (IF a < b THEN a ELSE 0) ELSE b]

---------------------------------------------------------------------------
(* The live transformer (MarkdownPlugin)                                   *)

\* return false: the step hands back the tree and the selection as they
\* are when it returns
NotHandled(rootNode, sel) ==
    [handled |-> FALSE, root |-> rootNode, selection |-> sel]

\* the caret offset past which no block-level trigger is looked for
MAX_BLOCK_TRIGGER_OFFSET == 20

\* the selection element.select(0, 0) makes
SelectStart(block, item, format) == ElementPoint(block, item, 0, format)

\* the selection the replacer of transformer name leaves, run on the
\* paragraph at index idx of rootNode
ReplacerSelection(name, rootNode, idx, format) ==
    CASE name \in {"HEADING", "QUOTE", "CODE"} -> SelectStart(idx, 0, format)
      [] name \in {"UNORDERED_LIST", "ORDERED_LIST"} ->
            LET listTag == IF name = "ORDERED_LIST" THEN "ol" ELSE "ul"
            IN  IF idx > 1 /\ ListMerges(rootNode[idx - 1], listTag)
                THEN SelectStart(idx - 1, Len(rootNode[idx - 1].items) + 1, format)
                ELSE SelectStart(idx, 1, format)
      [] name = "HR" -> SelectStart(idx + 1, 0, format)
      [] name = "TABLE" ->
            [type |-> "table", block |-> idx, item |-> 0, child |-> 0,
             offset |-> 0, format |-> format]

\* a check of the anchor's place that leaves out the first-child test
IsFirstChildOfTopLevelAnyChild(rootNode, sel) == rootNode[sel.block].type # "list"

\* $isRootNode(grandParentNode) && parentNode.getFirstChild() === anchorNode:
\* the parent of a text node in a list is a list item, whose parent is the list
IsFirstChildOfTopLevel(rootNode, sel) ==
    rootNode[sel.block].type # "list" /\ sel.child = 1

\* a check of the caret that leaves out the limit on the offset
IsBlockTriggerAnyOffset(textContent, anchorOffset) ==
    CharAt(textContent, anchorOffset - 1) = " "

\* !(anchorOffset > 20 || textContent[anchorOffset - 1] !== ' ')
IsBlockTrigger(textContent, anchorOffset) ==
    ~(\/ anchorOffset > MAX_BLOCK_TRIGGER_OFFSET
      \/ CharAt(textContent, anchorOffset - 1) # " ")

\* runBlockTransformers of the plugin
runBlockTransformersLive(rootNode, sel) ==
    LET parentNode == rootNode[sel.block]
        children == ParentChildren(rootNode, sel)
        anchorNode == children[sel.child]
        textContent == anchorNode.text
        anchorOffset == sel.offset
        hits == {k \in DOMAIN BLOCK_TRANSFORMERS :
                    LET match == BlockMatch(BLOCK_TRANSFORMERS[k], textContent)
                    IN  match.found /\ match.length = anchorOffset}
        name == BLOCK_TRANSFORMERS[Min(hits)]
        remainder == SliceFrom(textContent, anchorOffset)
        siblings == (IF remainder = <<>> THEN <<>>
                     ELSE <<TextNode(remainder, anchorNode.format)>>)
                    \o SubSeq(children, 2, Len(children))
        split == WithChildren(rootNode, sel, siblings)
    IN  IF ~IsFirstChildOfTopLevel(rootNode, sel) THEN NotHandled(rootNode, sel)
        ELSE IF ~IsBlockTrigger(textContent, anchorOffset) THEN NotHandled(rootNode, sel)
        ELSE IF hits = {} THEN NotHandled(rootNode, sel)
        ELSE [handled |-> TRUE,
              root |-> Replacer(name, split, sel.block, siblings,
                                BlockMatch(name, textContent), textContent, FALSE),
              selection |-> ReplacerSelection(name, split, sel.block, sel.format)]

\* a link pattern that nothing matches
LinkRegExpNever(textContent) == NoMatch

\* textContent.match(/(?:\[([^[]+)\])(?:\(([^(]+)\))$/)
LinkRegExpAtEnd(textContent) ==
    LET n == Len(textContent)
        Texts(i) == {k \in (i + 2)..(n - 4) :
                       /\ CharAt(textContent, k) = "]"
                       /\ \A x \in (i + 1)..(k - 1) : CharAt(textContent, x) # "["
                       /\ CharAt(textContent, k + 1) = "("
                       /\ \A x \in (k + 2)..(n - 2) : CharAt(textContent, x) # "("}
        Starts == {i \in 0..(n - 1) :
                       CharAt(textContent, i) = "[" /\ Texts(i) # {}}
    IN  IF CharAt(textContent, n - 1) # ")" \/ Starts = {} THEN NoMatch
        ELSE LET i == Min(Starts)
                 k == Max(Texts(i))
             IN  [found |-> TRUE, index |-> i, length |-> n - i,
                  linkText |-> Slice(textContent, i + 1, k),
                  linkUrl |-> Slice(textContent, k + 2, n - 1)]

\* runLinkTransform
runLinkTransform(rootNode, sel) ==
    LET children == ParentChildren(rootNode, sel)
        anchorNode == children[sel.child]
        anchorOffset == sel.offset
        textContent == Slice(anchorNode.text, 0, anchorOffset)
        match == LinkRegExpAtEnd(textContent)
        startIndex == anchorOffset - match.length
        before == IF startIndex = 0 THEN <<>>
                  ELSE <<TextNode(Slice(anchorNode.text, 0, startIndex),
                                  anchorNode.format)>>
        after == IF anchorOffset >= Len(anchorNode.text) THEN <<>>
                 ELSE <<TextNode(SliceFrom(anchorNode.text, anchorOffset),
                                 anchorNode.format)>>
        linkNode == LinkNode(match.linkUrl, <<TextNode(match.linkText, {})>>)
    IN  IF CharAt(anchorNode.text, anchorOffset - 1) # ")" THEN NotHandled(rootNode, sel)
        ELSE IF ~match.found THEN NotHandled(rootNode, sel)
        ELSE [handled |-> TRUE,
              root |-> WithChildren(rootNode, sel,
                           ReplaceAt(children, sel.child,
                                     before \o <<linkNode>> \o after)),
              \* linkNode.select(): the selection lies on the link element
              selection |-> [type |-> "link", block |-> sel.block,
                             item |-> sel.item,
                             child |-> sel.child + Len(before),
                             offset |-> 1, format |-> sel.format]]

\* textTransformersIndex[closeChar]: the transformers whose tag ends with
\* closeChar, in the order of registration
byClosingChar(closeChar) ==
    SelectSeq(TEXT_TRANSFORMERS, LAMBDA t : t.tag[Len(t.tag)] = closeChar)

\* a search that takes an opening tag with a space behind it
getOpenTagStartIndexAnyNext(string, maxIndex, tag) ==
    LET hits == {startIndex \in 0..(maxIndex - Len(tag)) :
                    isEqualSubString(string, startIndex, tag)}
    IN  IF hits = {} THEN -1 ELSE Max(hits)

\* getOpenTagStartIndex(string, maxIndex, tag)
getOpenTagStartIndex(string, maxIndex, tag) ==
    LET hits == {startIndex \in 0..(maxIndex - Len(tag)) :
                    /\ isEqualSubString(string, startIndex, tag)
                    \* Space after opening tag cancels transformation
                    /\ CharAt(string, startIndex + Len(tag)) # " "}
    IN  IF hits = {} THEN -1 ELSE Max(hits)

\* a check that lets a tag open inside a longer run of its character
IsRepeatingCharNever(prevOpenNodeText, openTagStartIndex, closeChar) == FALSE

\* whether the character before the opening tag is the closing character
IsRepeatingChar(prevOpenNodeText, openTagStartIndex, closeChar) ==
    /\ openTagStartIndex > 0
    /\ CharAt(prevOpenNodeText, openTagStartIndex - 1) = closeChar

RECURSIVE SiblingSearchAcrossBreaks(_, _, _, _)
\* a search that goes on behind a line break
SiblingSearchAcrossBreaks(children, i, tag, openNode) ==
    IF i < 1 THEN [openNode |-> openNode, openTagStartIndex |-> -1]
    ELSE IF IsTextNode(children[i])
    THEN LET siblingTextContent == children[i].text
             found == getOpenTagStartIndex(siblingTextContent,
                                           Len(siblingTextContent), tag)
         IN  IF found >= 0 THEN [openNode |-> i, openTagStartIndex |-> found]
             ELSE SiblingSearchAcrossBreaks(children, i - 1, tag, i)
    ELSE SiblingSearchAcrossBreaks(children, i - 1, tag, openNode)

RECURSIVE SiblingSearchUpToElement(_, _, _, _)
\* a search that ends at a sibling that is neither text nor line break
SiblingSearchUpToElement(children, i, tag, openNode) ==
    IF i < 1 THEN [openNode |-> openNode, openTagStartIndex |-> -1]
    ELSE IF ~IsTextNode(children[i])
    THEN [openNode |-> openNode, openTagStartIndex |-> -1]
    ELSE LET siblingTextContent == children[i].text
             found == getOpenTagStartIndex(siblingTextContent,
                                           Len(siblingTextContent), tag)
         IN  IF found >= 0 THEN [openNode |-> i, openTagStartIndex |-> found]
             ELSE SiblingSearchUpToElement(children, i - 1, tag, i)

RECURSIVE SiblingSearch(_, _, _, _)
\* the search for the opening tag through the siblings before the node of
\* the closing tag, from sibling number i backward
SiblingSearch(children, i, tag, openNode) ==
    IF i < 1 THEN [openNode |-> openNode, openTagStartIndex |-> -1]
    ELSE IF IsLineBreakNode(children[i])
    THEN [openNode |-> openNode, openTagStartIndex |-> -1]
    ELSE IF IsTextNode(children[i])
    THEN LET siblingTextContent == children[i].text
             found == getOpenTagStartIndex(siblingTextContent,
                                           Len(siblingTextContent), tag)
         IN  IF found >= 0 THEN [openNode |-> i, openTagStartIndex |-> found]
             ELSE SiblingSearch(children, i - 1, tag, i)
    ELSE SiblingSearch(children, i - 1, tag, openNode)

\* the node and the index of the opening tag, inNode being what the search
\* in the node of the closing tag gave: the siblings before are searched
\* when it gave nothing
OpenTag(inNode, children, closeNode, tag) ==
    IF inNode >= 0 THEN [openNode |-> closeNode, openTagStartIndex |-> inNode]
    ELSE SiblingSearch(children, closeNode - 1, tag, closeNode)

\* the checks of one round of the loop over the matchers, open being the
\* node and the index of the opening tag
CheckedMatch(children, closeNode, closeTagStartIndex, tag, open) ==
    LET textContent == children[closeNode].text
        tagLength == Len(tag)
        closeChar == tag[tagLength]
    IN  IF tagLength > 1 /\ ~isEqualSubString(textContent, closeTagStartIndex, tag)
        THEN NoMatch
        \* Space before closing tag cancels inline markdown
        ELSE IF CharAt(textContent, closeTagStartIndex - 1) = " " THEN NoMatch
        \* Opening tag is not found
        ELSE IF open.openTagStartIndex < 0 THEN NoMatch
        \* No content between opening and closing tag
        ELSE IF /\ open.openNode = closeNode
                /\ open.openTagStartIndex + tagLength = closeTagStartIndex
        THEN NoMatch
        \* Checking longer tags for repeating chars
        ELSE IF IsRepeatingChar(children[open.openNode].text,
                                open.openTagStartIndex, closeChar)
        THEN NoMatch
        ELSE [found |-> TRUE, openNode |-> open.openNode,
              openTagStartIndex |-> open.openTagStartIndex,
              closeTagStartIndex |-> closeTagStartIndex]

\* one round of the loop of runTextTransformers over the matchers: whether
\* the tag closes at the caret, and where it opens
TagMatch(children, closeNode, anchorOffset, tag) ==
    CheckedMatch(children, closeNode, anchorOffset - Len(tag), tag,
        OpenTag(getOpenTagStartIndex(children[closeNode].text,
                                     anchorOffset - Len(tag), tag),
                children, closeNode, tag))

\* the selection after selection.formatText(format): done holds the
\* children and the ends, format is among the formats of the selection
Formatted(done, format) ==
    [children |-> done.children, oi |-> done.oi, a |-> done.a,
     ci |-> done.ci, b |-> done.b, format |-> format]

RECURSIVE formatEach(_, _, _)
\* the loop over matcher.format: a format the selection does not have yet
\* is applied to the selected text.  range holds the children, the ends of
\* the selection and the formats of the selection
formatEach(range, formats, k) ==
    IF k > Len(formats) THEN range
    ELSE IF formats[k] \in range.format
    THEN formatEach(range, formats, k + 1)
    ELSE formatEach(Formatted(formatText(range.children, range.oi, range.a,
                                         range.ci, range.b, formats[k]),
                              range.format \cup {formats[k]}),
                    formats, k + 1)

\* the match of the matcher and the matcher
MatchOf(matcher, match) ==
    [found |-> TRUE, matcher |-> matcher,
     openNode |-> match.openNode,
     openTagStartIndex |-> match.openTagStartIndex,
     closeTagStartIndex |-> match.closeTagStartIndex]

\* the first matcher of matchers whose tag is matched
FirstOf(matchers, children, closeNode, anchorOffset) ==
    LET hits == {k \in 1..Len(matchers) :
                    TagMatch(children, closeNode, anchorOffset,
                             matchers[k].tag).found}
    IN  IF hits = {} THEN NoMatch
        ELSE MatchOf(matchers[Min(hits)],
                     TagMatch(children, closeNode, anchorOffset,
                              matchers[Min(hits)].tag))

\* the loop of runTextTransformers over the matchers of the character
\* before the caret
FirstTagMatch(children, closeNode, anchorOffset) ==
    FirstOf(byClosingChar(CharAt(children[closeNode].text, anchorOffset - 1)),
            children, closeNode, anchorOffset)

\* a stripping that takes one character whatever the length of the tag
StripTagOneChar(text, start, tagLength) ==
    Slice(text, 0, start) \o SliceFrom(text, start + 1)

\* a text without the tagLength characters from index start on
StripTag(text, start, tagLength) ==
    Slice(text, 0, start) \o SliceFrom(text, start + tagLength)

\* the children with the closing tag taken out of the text of closeNode
\* and then the opening tag out of the text of the node of match
CleanTags(children, closeNode, match, tagLength) ==
    LET closed == [children EXCEPT ![closeNode].text =
                      StripTag(@, match.closeTagStartIndex, tagLength)]
    IN  [closed EXCEPT ![match.openNode].text =
            StripTag(@, match.openTagStartIndex, tagLength)]

\* the selection from the opening tag to the closing tag, the tags gone
\* and no format active: $createRangeSelection() and the new offsets
TagSelection(children, closeNode, anchorOffset, match, tagLength) ==
    [children |-> CleanTags(children, closeNode, match, tagLength),
     oi |-> match.openNode,
     a |-> match.openTagStartIndex,
     ci |-> closeNode,
     \* Adjust offset based on deleted chars
     b |-> anchorOffset - 1
           - tagLength * (IF match.openNode = closeNode THEN 2 ELSE 1) + 1,
     format |-> {}]

\* a collapsed selection that keeps the formats that were just applied
CollapsedFormatKept(format, formats) == format

\* the formats left on the collapsed selection: each format of the matcher
\* the selection has is toggled off
CollapsedFormat(format, formats) == format \ Range(formats)

\* the tree and the selection after the formats were applied: the selection
\* collapses to the focus
Collapsed(rootNode, sel, formats, formatted) ==
    [handled |-> TRUE,
     root |-> WithChildren(rootNode, sel, formatted.children),
     selection |-> TextPoint(sel.block, sel.item, formatted.ci, formatted.b,
                             CollapsedFormat(formatted.format, formats))]

\* a step that takes the character before the caret out of the text before
\* it looks at the match
ApplyMatchCleansFirst(rootNode, sel, children, match) ==
    IF ~match.found
    THEN NotHandled(WithChildren(rootNode, sel,
                        [children EXCEPT ![sel.child].text =
                            StripTag(@, sel.offset - 1, 1)]),
                    sel)
    ELSE Collapsed(rootNode, sel, match.matcher.format,
             formatEach(TagSelection(children, sel.child, sel.offset, match,
                                     Len(match.matcher.tag)),
                        match.matcher.format, 1))

\* what runTextTransformers does with the match of the loop
ApplyMatch(rootNode, sel, children, match) ==
    IF ~match.found THEN NotHandled(rootNode, sel)
    ELSE Collapsed(rootNode, sel, match.matcher.format,
             formatEach(TagSelection(children, sel.child, sel.offset, match,
                                     Len(match.matcher.tag)),
                        match.matcher.format, 1))

\* runTextTransformers of the plugin
runTextTransformersLive(rootNode, sel) ==
    ApplyMatch(rootNode, sel, ParentChildren(rootNode, sel),
               FirstTagMatch(ParentChildren(rootNode, sel), sel.child, sel.offset))

\* transform of registerMarkdownPlugin: block, then link, then text
transform(rootNode, sel) ==
    LET block == runBlockTransformersLive(rootNode, sel)
        link == runLinkTransform(rootNode, sel)
    IN  IF block.handled THEN block
        ELSE IF link.handled THEN link
        ELSE runTextTransformersLive(rootNode, sel)

\* a listener that does not look at the tags of the update
IsHistoricNever(update) == FALSE

\* tags.has('historic')
IsHistoric(update) == update = "historic"

\* the update listener registerMarkdownPlugin registers, run for the update
\* that was just committed
listener(rootNode, sel, update) ==
    LET anchorNode == ParentChildren(rootNode, sel)[sel.child]
        parentNode == rootNode[sel.block]
    IN  \* Ignore updates from undo/redo (as changes already calculated)
        IF IsHistoric(update) THEN NotHandled(rootNode, sel)
        \* the anchor is a text node that the update made dirty
        ELSE IF sel.type # "text" THEN NotHandled(rootNode, sel)
        \* Markdown is not available inside code
        ELSE IF "code" \in anchorNode.format THEN NotHandled(rootNode, sel)
        ELSE IF parentNode.type = "code" THEN NotHandled(rootNode, sel)
        ELSE transform(rootNode, sel)

---------------------------------------------------------------------------
(* Typing, the update cycle and the history of the editor                  *)

HistoryEntry(rootNode, sel) == [root |-> rootNode, selection |-> sel]

\* the user types the character c at the caret
TypeChar(c, maxTyped) ==
    /\ pc = "idle"
    /\ redoStack = <<>>
    /\ Len(markdown) < maxTyped
    /\ selection.type \in {"text", "element"}
    /\ LET typed == insertText(root, selection, c)
       IN  /\ root' = typed.root
           /\ selection' = typed.selection
    /\ markdown' = Append(markdown, c)
    /\ undoStack' = Append(undoStack, HistoryEntry(root, selection))
    /\ lastUpdate' = "typed"
    /\ pc' = "notify"
    /\ UNCHANGED <<lineIndex, output, firstOutput, redoStack, registeredNodes, highlightVars>>

\* the update listener of the plugin runs for the committed update; what
\* it transforms is committed as an update of its own, and the tree is
\* left as the steps of the transform left it
UpdateListener ==
    /\ pc = "notify"
    /\ LET result == listener(root, selection, lastUpdate)
       IN  IF result.handled
           THEN /\ root' = result.root
                /\ selection' = result.selection
                /\ undoStack' = Append(undoStack, HistoryEntry(root, selection))
                /\ lastUpdate' = "transformed"
                /\ pc' = "notify"
           ELSE /\ root' = result.root
                /\ selection' = result.selection
                /\ pc' = "idle"
                /\ UNCHANGED <<undoStack, lastUpdate>>
    /\ UNCHANGED <<markdown, lineIndex, output, firstOutput, redoStack,
                   registeredNodes, highlightVars>>

\* undo: the editor state before the last update comes back, the update
\* is tagged historic
Undo ==
    /\ pc = "idle"
    /\ undoStack # <<>>
    /\ root' = undoStack[Len(undoStack)].root
    /\ selection' = undoStack[Len(undoStack)].selection
    /\ undoStack' = SubSeq(undoStack, 1, Len(undoStack) - 1)
    /\ redoStack' = Append(redoStack, HistoryEntry(root, selection))
    /\ lastUpdate' = "historic"
    /\ pc' = "notify"
    /\ UNCHANGED <<markdown, lineIndex, output, firstOutput, registeredNodes, highlightVars>>

\* redo: the editor state that was undone last comes back, the update is
\* tagged historic
Redo ==
    /\ pc = "idle"
    /\ redoStack # <<>>
    /\ root' = redoStack[Len(redoStack)].root
    /\ selection' = redoStack[Len(redoStack)].selection
    /\ redoStack' = SubSeq(redoStack, 1, Len(redoStack) - 1)
    /\ undoStack' = Append(undoStack, HistoryEntry(root, selection))
    /\ lastUpdate' = "historic"
    /\ pc' = "notify"
    /\ UNCHANGED <<markdown, lineIndex, output, firstOutput, registeredNodes, highlightVars>>

---------------------------------------------------------------------------
(* The import/export driver: a string is imported line by line, the tree   *)
(* is exported, and the exported string is imported and exported again     *)

NoOutput == <<"no output">>
NoSelection == [type |-> "none"]
RootEnd == [type |-> "rootEnd"]

\* all sequences over S of length at most n
SeqsUpTo(S, n) == UNION {[1..k -> S] : k \in 0..n}

\* the string the importer is given: what was typed or drawn first, and the
\* first output of the exporter after that
Input == IF firstOutput = NoOutput THEN markdown ELSE firstOutput

\* the importer is entered: const root = $getRoot(); root.clear()
ImportBegin ==
    /\ pc \in {"idle", "ready"}
    /\ redoStack = <<>>
    /\ pc' = "importing"
    /\ lineIndex' = 0
    /\ root' = <<>>
    /\ UNCHANGED <<markdown, output, firstOutput, liveVars>>

\* one iteration of the importer's loop over the lines
ImportLine ==
    LET lines == Split(Input, "\n")
        code == runCodeBlockTransformers(lines, lineIndex)
    IN  /\ pc = "importing"
        /\ lineIndex < Len(lines)
        /\ IF code.found
           THEN /\ root' = Append(root, code.codeBlockNode)
                /\ lineIndex' = code.shiftedIndex + 1
           ELSE /\ root' = runBlockTransformers(lines[lineIndex + 1], root)
                /\ lineIndex' = lineIndex + 1
        /\ UNCHANGED <<markdown, output, firstOutput, pc, liveVars>>

\* the loop is left: root.selectEnd()
ImportEnd ==
    /\ pc = "importing"
    /\ lineIndex >= Len(Split(Input, "\n"))
    /\ pc' = "imported"
    /\ selection' = RootEnd
    /\ UNCHANGED <<markdown, lineIndex, root, output, firstOutput,
                   undoStack, redoStack, lastUpdate, registeredNodes,
                   highlightVars>>

\* the exporter runs; its first output is handed to the importer again.
\* When a sibling search of the exporter does not leave its loop the call
\* never returns: the driver stays in the exporter
Export ==
    /\ pc = "imported"
    /\ IF exportMarkdownEnds(root)
       THEN /\ output' = exportMarkdown(root)
            /\ IF firstOutput = NoOutput
               THEN /\ firstOutput' = exportMarkdown(root)
                    /\ pc' = "ready"
               ELSE /\ pc' = "done"
                    /\ UNCHANGED firstOutput
       ELSE /\ pc' = "exporting"
            /\ UNCHANGED <<output, firstOutput>>
    /\ UNCHANGED <<markdown, lineIndex, root, liveVars>>

NextImport == ImportBegin \/ ImportLine \/ ImportEnd \/ Export

ImportInit(inputs) ==
    /\ markdown \in inputs
    /\ lineIndex = 0
    /\ root = <<ParagraphNode(<<>>)>>
    /\ output = NoOutput
    /\ firstOutput = NoOutput
    /\ pc = "idle"
    /\ selection = ElementPoint(1, 0, 0, {})
    /\ undoStack = <<>>
    /\ redoStack = <<>>
    /\ lastUpdate = "none"
    /\ registeredNodes = RequiredNodes
    /\ HighlightingIdle

---------------------------------------------------------------------------
(* Live typing: the user types into the empty editor, may undo and redo,   *)
(* and the characters typed may be handed to the importer as a string      *)

\* the characters the user types
LiveAlphabet == {"*", "a", " "}
MaxTyped == 7

TypeLive == \E c \in LiveAlphabet : TypeChar(c, MaxTyped)

NextLive ==
    \/ TypeLive
    \/ UpdateListener
    \/ Undo
    \/ Redo

InitLive == ImportInit({<<>>})
SpecLive == InitLive /\ [][NextLive]_vars

---------------------------------------------------------------------------
(* Round trips: documents of at most MaxBlocks blocks, a block being a     *)
(* line (a block prefix and an inline content), an empty line, a rule, a   *)
(* table row or a fenced code block                                        *)

RoundTripPrefixes ==
    { <<>>,
      <<"#", " ">>,
      <<">", " ">>,
      <<"-", " ">>,
      <<"1", ".", " ">>,
      <<" ", " ", " ", " ", "2", ".", " ">>,
      Fence \o <<" ">> }

RoundTripInlines ==
    { <<"a">>,
      <<"*", "*", "a", "*", "*", " ", "_", "b", "_">>,
      <<Backtick, "a", "*", Backtick, " ", "~", "~", "b", "~", "~">>,
      <<"[", "a", "]", "(", "u", ")">>,
      Fence \o <<"j", "s">> }

FencedBlock == Fence \o <<"j", "s", "\n", "a", "\n">> \o Fence

RoundTripBlocks ==
    {prefix \o inline : prefix \in RoundTripPrefixes, inline \in RoundTripInlines}
    \cup { FencedBlock,
           <<>>,
           <<"-", "-", "-">>,
           <<"|", " ", "a", " ", "|", " ", "b", " ", "|">> }

MaxBlocks == 2

\* the documents made of at most n of the blocks
Documents(blocks, n) == {Join(bs, <<"\n">>) : bs \in SeqsUpTo(blocks, n)}

InitRoundTrip == ImportInit(Documents(RoundTripBlocks, MaxBlocks))
SpecRoundTrip == InitRoundTrip /\ [][NextImport]_vars

\* C1: for every string s, with t the export of the import of s, importing
\* t and exporting again yields a string equal to t
C1RoundTripAnyString == pc = "done" => output = firstOutput

---------------------------------------------------------------------------
(* Lists: documents of at most MaxListLines lines, list lines of both      *)
(* kinds and lines that are no list lines                                  *)

ListLines ==
    { <<"-", " ", "a">>,
      <<"*", " ", "b">>,
      <<" ", " ", " ", " ", "-", " ", "c">>,
      <<"1", ".", " ", "a">>,
      <<"2", ".", " ", "b">>,
      <<"a">>,
      <<"#", " ", "a">> }

MaxListLines == 3

InitLists == ImportInit(Documents(ListLines, MaxListLines))
SpecLists == InitLists /\ [][NextImport]_vars

\* the kind of list a line belongs to
ListKind(line) ==
    IF UnorderedListRegExp(line).found THEN "ul"
    ELSE IF OrderedListRegExp(line).found THEN "ol"
    ELSE "other"

\* what is left of a list line after its marker
ListItemText(line) ==
    IF ListKind(line) = "ul" THEN SliceFrom(line, UnorderedListRegExp(line).length)
    ELSE SliceFrom(line, OrderedListRegExp(line).length)

\* line number i does not continue a run of list lines of its kind
StartsRun(lines, i) ==
    \/ i = 1
    \/ ListKind(lines[i]) = "other"
    \/ ListKind(lines[i - 1]) # ListKind(lines[i])

\* the first line of the run line number i lies in
RunStart(lines, i) == Max({j \in 1..i : StartsRun(lines, j)})

\* the number of runs and other lines up to line number i
RunCount(lines, i) == Cardinality({j \in 1..i : StartsRun(lines, j)})

\* the number of lines of the run that starts with line number first
RunLength(lines, first) ==
    Cardinality({j \in first..Len(lines) : RunStart(lines, j) = first})

\* C2: the consecutive lines of one list kind make exactly one list node of
\* that kind, holding one item per line in the order of the lines; a list
\* line after a node that is no list of its kind starts a list node
C2ListRuns ==
    pc = "imported" =>
        LET lines == Split(Input, "\n")
        IN  /\ Len(root) = RunCount(lines, Len(lines))
            /\ \A i \in 1..Len(lines) :
                  ListKind(lines[i]) # "other" =>
                      LET first == RunStart(lines, i)
                          list == root[RunCount(lines, i)]
                      IN  /\ list.type = "list"
                          /\ list.tag = ListKind(lines[i])
                          /\ Len(list.items) = RunLength(lines, first)
                          /\ TextContent(list.items[i - first + 1].children)
                                 = ListItemText(lines[i])

\* two unordered lines and then an ordered line were imported: one list of
\* two items in line order and a second list
C2Witness ==
    /\ pc = "imported"
    /\ markdown = <<"-", " ", "a", "\n", "*", " ", "b", "\n", "1", ".", " ", "a">>
    /\ firstOutput = NoOutput
    /\ Len(root) = 2
    /\ root[1].tag = "ul"
    /\ Len(root[1].items) = 2
    /\ TextContent(root[1].items[1].children) = <<"a">>
    /\ TextContent(root[1].items[2].children) = <<"b">>
    /\ root[2].tag = "ol"

---------------------------------------------------------------------------
(* Fences: documents of at most MaxFenceLines lines, fence lines with and  *)
(* without a tag or a trailing space, and lines of Markdown to enclose     *)

FenceLines ==
    { Fence,
      Fence \o <<"j", "s">>,
      Fence \o <<" ">>,
      <<"#", " ", "a">>,
      <<"*", "a", "*">> }

MaxFenceLines == 4

InitFences == ImportInit(Documents(FenceLines, MaxFenceLines))
SpecFences == InitFences /\ [][NextImport]_vars

\* the fence pattern: three backticks, an optional tag of 1 to 10 word
\* characters, an optional whitespace character
IsFenceLine(line) == CODE_BLOCK_REG_EXP(line).found

\* the indices, counted from 0, of the fence lines after line i
LaterFences(lines, i) == {j \in (i + 1)..(Len(lines) - 1) : IsFenceLine(lines[j + 1])}

\* C3: when the importer stands at a line i that matches the fence pattern
\* and a later line matches it, the step appends exactly one code block:
\* its language is the tag of line i, its only child one text node with
\* the lines strictly between i and the first later fence line j, joined
\* by newlines and left as they are; the importer goes on at line j + 1
C3FencedCodeBlock ==
    [][ LET lines == Split(Input, "\n")
            i == lineIndex
            j == Min(LaterFences(lines, i))
        IN  (/\ pc = "importing"
             /\ pc' = "importing"
             /\ i < Len(lines)
             /\ IsFenceLine(lines[i + 1])
             /\ LaterFences(lines, i) # {})
            => /\ root' = Append(root,
                     CodeNode(CODE_BLOCK_REG_EXP(lines[i + 1]).language,
                              <<TextNode(Join(SubSeq(lines, i + 2, j), <<"\n">>), {})>>))
               /\ lineIndex' = j + 1 ]_vars

\* a fenced block tagged js that encloses a heading line was imported as
\* one code block with the line as its text, and the line after the
\* closing fence was resolved as usual
C3Witness ==
    /\ pc = "imported"
    /\ markdown = Fence \o <<"j", "s", "\n", "#", " ", "a", "\n">> \o Fence
                  \o <<"\n", "*", "a", "*">>
    /\ firstOutput = NoOutput
    /\ root = << CodeNode(<<"j", "s">>, <<TextNode(<<"#", " ", "a">>, {})>>),
                 ParagraphNode(<<TextNode(<<"a">>, {"italic"})>>) >>

---------------------------------------------------------------------------
(* Inline text: one line made of at most MaxInlinePieces pieces            *)

InlinePieces ==
    { <<Backtick>>,
      <<"*", "*", "x", "*", "*">>,
      <<"*", "y", "*">>,
      <<"[", "t", "]", "(", "u", ")">>,
      <<" ">>,
      <<"a">>,
      <<"*">> }

MaxInlinePieces == 4

InitInline ==
    ImportInit({Concat(ps) : ps \in SeqsUpTo(InlinePieces, MaxInlinePieces)})
SpecInline == InitInline /\ [][NextImport]_vars

\* C4: when the first pair the resolver matches in the text of a paragraph
\* is a pair of backticks, the characters between the backticks make one
\* text node of format code as they are, and the text after the closing
\* backtick is resolved as it is resolved on its own
C4InlineCodeTerminal ==
    LET match == findOutermostMatch(Input)
        children == root[1].children
        endIndex == match.index + match.length
        k == IF match.index = 0 THEN 1 ELSE 2
    IN  (/\ pc = "imported"
         /\ FirstBlockMatch(Input) = 0
         /\ match.found
         /\ match.tag = <<Backtick>>)
        => /\ Len(children) >= k
           /\ children[k] = TextNode(Slice(Input, match.index + 1, endIndex - 1),
                                     {"code"})
           /\ SubSeq(children, k + 1, Len(children))
                  = IF endIndex < Len(Input)
                    THEN runTextTransformers(TextNode(SliceFrom(Input, endIndex), {}))
                    ELSE <<>>

\* bold Markdown between backticks stayed literal in one code node, and
\* the pair of stars after the closing backtick became italic
C4Witness ==
    /\ pc = "imported"
    /\ markdown = <<Backtick, "*", "*", "x", "*", "*", Backtick, "*", "y", "*">>
    /\ firstOutput = NoOutput
    /\ root = << ParagraphNode(
                   << TextNode(<<"*", "*", "x", "*", "*">>, {"code"}),
                      TextNode(<<"y">>, {"italic"}) >>) >>

---------------------------------------------------------------------------
(* Live inline conversion, seen from outside: the characters of the block  *)
(* the caret is in, each with its formats, before and after a step         *)

RECURSIVE Characters(_)
\* the characters of the text nodes of children in order, with formats
Characters(children) ==
    IF children = <<>> THEN <<>>
    ELSE LET node == Head(children)
         IN  (IF IsTextNode(node)
              THEN [k \in 1..Len(node.text) |->
                       [char |-> node.text[k], format |-> node.format]]
              ELSE <<[char |-> node.type, format |-> {}]>>)
             \o Characters(Tail(children))

RECURSIVE TextLength(_)
TextLength(children) ==
    IF children = <<>> THEN 0
    ELSE Len(Characters(<<Head(children)>>)) + TextLength(Tail(children))

\* the number of characters of the block before the caret
CaretPosition(rootNode, sel) ==
    IF sel.type # "text" THEN 0
    ELSE TextLength(SubSeq(ParentChildren(rootNode, sel), 1, sel.child - 1))
         + sel.offset

\* after is before with the tag of transformer removed at the index open
\* and right before the index caret, and with the formats of transformer
\* added to the characters between the two
Converts(transformer, open, caret, before, after) ==
    LET tag == transformer.tag
        tagLength == Len(tag)
        close == caret - tagLength
        inner == close - open - tagLength
    IN  /\ inner >= 0
        /\ \A k \in 1..tagLength :
              before[open + k].char = tag[k] /\ before[close + k].char = tag[k]
        /\ after = SubSeq(before, 1, open)
                   \o [k \in 1..inner |->
                          [char |-> before[open + tagLength + k].char,
                           format |-> before[open + tagLength + k].format
                                      \cup Range(transformer.format)]]
                   \o SubSeq(before, caret + 1, Len(before))

\* the conversions that explain a step of the block of the caret
Conversions ==
    LET before == Characters(ParentChildren(root, selection))
        after == Characters(ParentChildren(root', selection'))
        caret == CaretPosition(root, selection)
    IN  { c \in (DOMAIN TEXT_TRANSFORMERS) \X (0..Len(before)) :
            Converts(TEXT_TRANSFORMERS[c[1]], c[2], caret, before, after) }

\* a step of the update listener that converts inline text: the tree
\* changes and the selection stays in the text of the same block
InlineConversion ==
    /\ pc = "notify"
    /\ root' # root
    /\ selection'.type = "text"
    /\ selection'.block = selection.block
    /\ selection'.item = selection.item
    /\ Len(root') = Len(root)
    /\ root'[selection.block].type = root[selection.block].type

\* C5: a live inline conversion removes the closing tag that ends at the
\* caret and one opening tag before it, adds the formats of the tag to
\* exactly the characters between the two, and leaves every other character
\* of the block, and every other block, as it was
C5LiveConversionResult ==
    [][ InlineConversion =>
          /\ Conversions # {}
          /\ \A b \in DOMAIN root : b # selection.block => root'[b] = root[b]
          /\ lastUpdate = "typed" ]_vars

\* "a *a*" was typed: plain "a " is followed by italic "a"
C5Witness ==
    /\ pc = "idle"
    /\ markdown = <<"a", " ", "*", "a", "*">>
    /\ redoStack = <<>>
    /\ lastUpdate = "transformed"
    /\ root = <<ParagraphNode(<<TextNode(<<"a", " ">>, {}),
                                TextNode(<<"a">>, {"italic"})>>)>>

\* C6: after a live inline conversion the caret is right behind the
\* converted characters and none of the formats of the tag is active on
\* it; a character typed next is inserted at the caret with the formats
\* of the caret, none of them a format of the run before it
C6CaretAfterConversion ==
    [][ /\ InlineConversion =>
            \A c \in Conversions :
                LET tag == TEXT_TRANSFORMERS[c[1]].tag
                    formats == Range(TEXT_TRANSFORMERS[c[1]].format)
                IN  /\ CaretPosition(root', selection')
                          = CaretPosition(root, selection) - 2 * Len(tag)
                    /\ selection'.format \cap formats = {}
        /\ (/\ pc = "idle"
            /\ pc' = "notify"
            /\ lastUpdate = "transformed"
            /\ lastUpdate' = "typed"
            /\ selection.type = "text") =>
               LET before == Characters(ParentChildren(root, selection))
                   after == Characters(ParentChildren(root', selection'))
                   caret == CaretPosition(root, selection)
               IN  /\ caret >= 1
                   /\ CaretPosition(root', selection') = caret + 1
                   /\ SubSeq(after, 1, caret) = SubSeq(before, 1, caret)
                   /\ after[caret + 1].char = markdown'[Len(markdown')]
                   /\ after[caret + 1].format = selection.format
                   /\ after[caret + 1].format \cap before[caret].format = {} ]_vars

\* "a *a*a" was typed: the "a" typed after the conversion is plain
C6Witness ==
    /\ pc = "idle"
    /\ markdown = <<"a", " ", "*", "a", "*", "a">>
    /\ redoStack = <<>>
    /\ selection = TextPoint(1, 0, 3, 1, {})
    /\ root = <<ParagraphNode(<<TextNode(<<"a", " ">>, {}),
                                TextNode(<<"a">>, {"italic"}),
                                TextNode(<<"a">>, {})>>)>>

\* s is what was typed so far and nothing is undone
Typed(s) == markdown = s /\ redoStack = <<>>

\* the block holds the one text node of text and format, nothing else
OneRun(text, format) == root = <<ParagraphNode(<<TextNode(text, format)>>)>>

BoldTyped == <<"*", "*", "a", "*", "*">>
BoldItalicTyped == <<"*", "*", "*", "a", "*", "*", "*">>

\* C7: while "**a**" is typed nothing is converted before the last star,
\* and the last star leaves exactly one run "a" of format bold, italic
\* never applied; while "***a***" is typed nothing is converted before
\* the last star, which leaves exactly one run "a" of formats bold, italic
C7RepeatedCharacters ==
    /\ \A n \in 1..(Len(BoldTyped) - 1) :
          Typed(SubSeq(BoldTyped, 1, n)) => OneRun(SubSeq(BoldTyped, 1, n), {})
    /\ \A n \in 1..(Len(BoldItalicTyped) - 1) :
          Typed(SubSeq(BoldItalicTyped, 1, n))
              => OneRun(SubSeq(BoldItalicTyped, 1, n), {})
    /\ Typed(BoldTyped) =>
          IF pc = "notify" /\ lastUpdate = "typed"
          THEN OneRun(BoldTyped, {})
          ELSE OneRun(<<"a">>, {"bold"})
    /\ Typed(BoldItalicTyped) =>
          IF pc = "notify" /\ lastUpdate = "typed"
          THEN OneRun(BoldItalicTyped, {})
          ELSE OneRun(<<"a">>, {"bold", "italic"})

\* "***a***" was typed and converted, after "**a**" was on the way
C7Witness ==
    /\ pc = "idle"
    /\ Typed(BoldItalicTyped)
    /\ OneRun(<<"a">>, {"bold", "italic"})
    /\ Len(undoStack) = Len(BoldItalicTyped) + 1

---------------------------------------------------------------------------
(* Whitespace next to the tags: typing with a space and a tab              *)

WhitespaceAlphabet == {"*", "a", " ", "\t"}
MaxWhitespaceTyped == 5

TypeWhitespace == \E c \in WhitespaceAlphabet : TypeChar(c, MaxWhitespaceTyped)

NextWhitespace ==
    \/ TypeWhitespace
    \/ UpdateListener
    \/ Undo
    \/ Redo

SpecWhitespace == InitLive /\ [][NextWhitespace]_vars

\* no character of the tree has the format
NoFormat(format) ==
    \A b \in DOMAIN root :
        LET Free(children) == \A i \in DOMAIN children :
                                  IsTextNode(children[i]) => format \notin children[i].format
        IN  IF root[b].type = "list"
            THEN \A i \in DOMAIN root[b].items : Free(root[b].items[i].children)
            ELSE IF root[b].type \in {"paragraph", "heading", "quote", "code"}
            THEN Free(root[b].children)
            ELSE TRUE

\* the number of the node of children that holds character number n
NodeOf(children, n) ==
    Min({i \in DOMAIN children : TextLength(SubSeq(children, 1, i)) >= n})

\* no inline conversion has a character of gaps right before its closing
\* tag or right behind its opening tag
NoConversionNextTo(gaps) ==
    InlineConversion =>
        \A c \in Conversions :
            LET before == Characters(ParentChildren(root, selection))
                tagLength == Len(TEXT_TRANSFORMERS[c[1]].tag)
                caret == CaretPosition(root, selection)
            IN  /\ caret - tagLength >= 1
                       => before[caret - tagLength].char \notin gaps
                /\ before[c[2] + tagLength + 1].char \notin gaps

\* no inline conversion has a character of gaps right before its closing
\* tag in the text node of the closing tag, or right behind its opening
\* tag in the text node of the opening tag
NoConversionNextToInNode(gaps) ==
    InlineConversion =>
        \A c \in Conversions :
            LET children == ParentChildren(root, selection)
                before == Characters(children)
                tagLength == Len(TEXT_TRANSFORMERS[c[1]].tag)
                close == CaretPosition(root, selection) - tagLength
                open == c[2]
            IN  /\ (close >= 1 /\ NodeOf(children, close) = NodeOf(children, close + 1))
                       => before[close].char \notin gaps
                /\ NodeOf(children, open + tagLength + 1)
                       = NodeOf(children, open + tagLength)
                       => before[open + tagLength + 1].char \notin gaps

\* after "* a*" or "*a *" was typed no text is italic
NoItalicExamples ==
    \/ markdown = <<"*", " ", "a", "*">>
    \/ markdown = <<"*", "a", " ", "*">>
    => NoFormat("italic")

\* C8 as stated: no conversion when a whitespace character is right before
\* the closing tag or right behind the opening tag; after typing "* a*"
\* or "*a *" no text is italic
C8WhitespaceAdjacency ==
    [][NoConversionNextTo(Whitespace)]_vars /\ []NoItalicExamples

\* C8, amended: no conversion when a space character is right before the
\* closing tag in the text node of the closing tag, or right behind the
\* opening tag in the text node of the opening tag; after typing "* a*"
\* or "*a *" no text is italic
C8SpaceAdjacency ==
    [][NoConversionNextToInNode({" "})]_vars /\ []NoItalicExamples

\* "*a *" was typed and is literal text; so is "a* a*", whose first star
\* has a space behind it
C8Witness ==
    /\ pc = "idle"
    /\ redoStack = <<>>
    /\ \/ markdown = <<"*", "a", " ", "*">>
       \/ markdown = <<"a", "*", " ", "a", "*">>
    /\ OneRun(markdown, {})

---------------------------------------------------------------------------
(* History: a block shortcut, undo and redo                                *)

HistoryAlphabet == {"#", " ", "a", "*"}
MaxHistoryTyped == 4

TypeHistory == \E c \in HistoryAlphabet : TypeChar(c, MaxHistoryTyped)

NextHistory ==
    \/ TypeHistory
    \/ UpdateListener
    \/ Undo
    \/ Redo

SpecHistory == InitLive /\ [][NextHistory]_vars

HeadingTyped == <<"#", " ">>

\* C10: the update listener changes nothing for an update that undo or
\* redo made; when "# " was typed and converted, after one undo the
\* paragraph holds the text "# " and stays as it is, and after the redo
\* the heading is back
C10HistoricIgnored ==
    /\ [][(pc = "notify" /\ lastUpdate = "historic")
             => (root' = root /\ selection' = selection /\ pc' = "idle")]_vars
    /\ [](markdown = HeadingTyped /\ Len(redoStack) = 1
             => OneRun(HeadingTyped, {}))
    /\ [](markdown = HeadingTyped /\ redoStack = <<>> /\ pc = "idle"
             => root = <<HeadingNode(1, <<>>)>>)

\* "# " was typed and converted, undone and redone: the heading is back
C10Witness ==
    /\ pc = "idle"
    /\ markdown = HeadingTyped
    /\ redoStack = <<>>
    /\ lastUpdate = "historic"
    /\ Len(undoStack) = 3
    /\ root = <<HeadingNode(1, <<>>)>>

---------------------------------------------------------------------------
(* Export of text siblings: a paragraph of at most MaxRuns text nodes      *)

RunTexts == { <<"H", "i", " ">>, <<"y", "o">> }
RunFormats == SUBSET {"bold", "italic", "strikethrough", "code"}
Runs == {TextNode(text, format) : text \in RunTexts, format \in RunFormats}

MaxRuns == 2

InitExport ==
    /\ markdown = <<>>
    /\ lineIndex = 0
    /\ \E children \in SeqsUpTo(Runs, MaxRuns) : root = <<ParagraphNode(children)>>
    /\ output = NoOutput
    /\ firstOutput = NoOutput
    /\ pc = "imported"
    /\ selection = RootEnd
    /\ undoStack = <<>>
    /\ redoStack = <<>>
    /\ lastUpdate = "none"
    /\ registeredNodes = RequiredNodes
    /\ HighlightingIdle

SpecExport == InitExport /\ [][NextImport]_vars

\* the text sibling number i of children carries the format
Carries(children, i, format) ==
    i \in DOMAIN children /\ format \in children[i].format

\* the tags before (after) the text of sibling number i: the tags of the
\* formats it carries and the sibling before (after) it does not, those of
\* the earlier transformers next to the text
TagsAround(children, i, neighbour, k) ==
    LET RECURSIVE Tags(_)
        Tags(n) ==
            IF n > Len(ExportIndex) THEN <<>>
            ELSE LET format == ExportIndex[n].format
                     first == \A m \in 1..(n - 1) : ExportIndex[m].format # format
                     tag == IF /\ first
                               /\ Carries(children, i, format)
                               /\ ~Carries(children, neighbour, format)
                            THEN ExportIndex[n].tag ELSE <<>>
                 IN  IF k = "before" THEN Tags(n + 1) \o tag ELSE tag \o Tags(n + 1)
    IN  Tags(1)

\* the text of the siblings from number i on, each between its tags
RECURSIVE TaggedFrom(_, _)
TaggedFrom(children, i) ==
    IF i > Len(children) THEN <<>>
    ELSE TagsAround(children, i, i - 1, "before")
         \o children[i].text
         \o TagsAround(children, i, i + 1, "after")
         \o TaggedFrom(children, i + 1)

\* C9: in the export of consecutive text siblings the opening tag of a
\* format stands before a run exactly if the text sibling right before it
\* does not carry the format, and the closing tag after a run exactly if
\* the text sibling right after it does not carry it
C9SiblingTags ==
    pc = "ready" => firstOutput = TaggedFrom(root[1].children, 1)

\* two bold runs "Hi " and "yo" were exported as **Hi yo**
C9Witness ==
    /\ pc = "ready"
    /\ root = <<ParagraphNode(<<TextNode(<<"H", "i", " ">>, {"bold"}),
                                TextNode(<<"y", "o">>, {"bold"})>>)>>
    /\ firstOutput = <<"*", "*", "H", "i", " ", "y", "o", "*", "*">>


---------------------------------------------------------------------------
(* Ordered lists: documents of at most MaxOrderedLines lines that begin    *)
(* with digits, followed by a period or by something else                  *)

OrderedLines ==
    { <<"2", "5", ".", " ", "a">>,
      <<"3", "1", ".", " ", "x">>,
      <<" ", "7", ".", " ", "b">>,
      <<"1", "x", " ", "a">>,
      <<"1", "2", " ", "a">>,
      <<"1", ".", "a">>,
      <<"a", "1", ".", " ", "b">>,
      <<"4", "2">> }

MaxOrderedLines == 2

InitOrdered == ImportInit(Documents(OrderedLines, MaxOrderedLines))
SpecOrdered == InitOrdered /\ [][NextImport]_vars

\* the line begins with optional whitespace, one or more digits, a period
\* and a whitespace character
IsOrderedLine(line) ==
    LET ws == LeadingRun(line, Whitespace)
        d == LeadingRun(SliceFrom(line, ws), Digits)
    IN  d >= 1 /\ CharAt(line, ws + d) = "." /\ CharAt(line, ws + d + 1) \in Whitespace

\* the whole digit sequence of an ordered-list line
OrderedDigits(line) ==
    LET ws == LeadingRun(line, Whitespace)
    IN  Slice(line, ws, ws + LeadingRun(SliceFrom(line, ws), Digits))

\* the lines listExport writes for a list whose items all have depth 0 are
\* numbered start, start + 1, ...
NumberedFromStart(list) ==
    (\A j \in 1..Len(list.items) : list.items[j].indent = 0) =>
        LET written == Split(listExport(list), "\n")
        IN  \A j \in 1..Len(list.items) :
                LET prefix == NumberToString(list.start + j - 1) \o <<".", " ">>
                IN  Slice(written[j], 0, Len(prefix)) = prefix

\* C11: a line becomes an ordered-list item only when it begins with
\* optional whitespace, digits, a literal period and a whitespace character;
\* a line that starts a new ordered list gives the list the value of its
\* whole digit sequence as start number and the exporter numbers the items
\* start, start + 1, ...; any other line keeps its leading digits as text
C11OrderedListItem ==
    (pc = "importing" /\ lineIndex > 0) =>
        LET line == Split(Input, "\n")[lineIndex]
            last == root[Len(root)]
        IN  IF IsOrderedLine(line)
            THEN /\ last.type = "list"
                 /\ last.tag = "ol"
                 /\ Len(last.items) = 1 => last.start = Number(OrderedDigits(line))
                 /\ NumberedFromStart(last)
            ELSE /\ last.type = "paragraph"
                 /\ TextContent(last.children) = line

---------------------------------------------------------------------------
(* Headings: documents of at most MaxHeadingLines lines that begin with    *)
(* one to seven number signs, with and without whitespace after them       *)

HeadingLines ==
    { <<"#", " ", "a">>,
      <<"#", "#", " ", "b">>,
      <<"#", "#", "#", " ", "c">>,
      <<"#", "#", "#", "#", " ", "d">>,
      <<"#", "#", "#", "#", "#", " ", "e">>,
      <<"#", "#", "#", "#", "#", "#", " ", "f">>,
      <<"#", "#", "#", "#", "#", "#", "#", " ", "g">>,
      <<"#", "\t", "a">>,
      <<"#", "a">>,
      <<"#", " ", "*", "b", "*">>,
      <<"a">> }

MaxHeadingLines == 2

InitHeadings == ImportInit(Documents(HeadingLines, MaxHeadingLines))
SpecHeadings == InitHeadings /\ [][NextImport]_vars

\* the number of number signs the line begins with
LeadingHashes(line) == LeadingRun(line, {"#"})

\* C12: a line of n number signs (1 <= n <= 6) and a whitespace character
\* imports as a heading of level n whose content is the line without that
\* prefix, and the heading exports as n number signs, one space and its
\* content; a line with seven or more leading number signs is no heading
C12HeadingLevels ==
    pc = "ready" =>
        LET lines == Split(markdown, "\n")
            written == Split(firstOutput, "\n")
        IN  /\ Len(root) = Len(lines)
            /\ Len(written) = Len(lines)
            /\ \A i \in 1..Len(lines) :
                  LET n == LeadingHashes(lines[i])
                      rest == SliceFrom(lines[i], n + 1)
                  IN  /\ (n \in 1..6 /\ CharAt(lines[i], n) \in Whitespace) =>
                            /\ root[i].type = "heading"
                            /\ root[i].level = n
                            /\ root[i].children = runTextTransformers(TextNode(rest, {}))
                            /\ written[i] = Repeat(<<"#">>, n) \o <<" ">>
                                                \o exportChildren(root[i].children)
                      /\ n >= 7 => root[i].type # "heading"

\* a line of six number signs became a heading of level 6 with the text f,
\* written back as it was, and a line of seven stayed a paragraph
C12Witness ==
    /\ pc = "ready"
    /\ markdown = <<"#", "#", "#", "#", "#", "#", " ", "f", "\n",
                    "#", "#", "#", "#", "#", "#", "#", " ", "g">>
    /\ root[1].type = "heading"
    /\ root[1].level = 6
    /\ TextContent(root[1].children) = <<"f">>
    /\ root[2].type = "paragraph"
    /\ firstOutput = markdown

---------------------------------------------------------------------------
(* Links: a paragraph with one text node, the caret somewhere in its text, *)
(* and at most MaxLinkTyped characters typed at the caret                  *)

LinkBefore ==
    { <<>>,
      <<"[", "a", "]", "(", "b">>,
      <<"x", "[", "a", "]", "(", "b">>,
      <<"[", "a", "]", "(">>,
      <<"[", "a", "]", "b", "]", "(", "c">>,
      <<"[", "[", "a", "]", "(", "b">>,
      <<"[", "a", "]", "(", "b", ")">>,
      <<"[", "a", "]", " ", "(", "b">>,
      <<"[", "]", "(", "b">> }

LinkAfter == { <<>>, <<"c">>, <<")">> }

LinkAlphabet == {")", "b", "("}

MaxLinkTyped == 2

\* the paragraph with the text before \o after and the caret between the two
CaretInText(before, after) ==
    /\ root = <<ParagraphNode(IF before \o after = <<>> THEN <<>>
                              ELSE <<TextNode(before \o after, {})>>)>>
    /\ selection = IF before \o after = <<>> THEN ElementPoint(1, 0, 0, {})
                   ELSE TextPoint(1, 0, 1, Len(before), {})
    /\ markdown = <<>>
    /\ lineIndex = 0
    /\ output = NoOutput
    /\ firstOutput = NoOutput
    /\ pc = "idle"
    /\ undoStack = <<>>
    /\ redoStack = <<>>
    /\ lastUpdate = "none"
    /\ registeredNodes = RequiredNodes
    /\ HighlightingIdle

InitLink == \E before \in LinkBefore, after \in LinkAfter : CaretInText(before, after)

TypeLink == \E c \in LinkAlphabet : TypeChar(c, MaxLinkTyped)

NextLink == TypeLink \/ UpdateListener \/ Undo \/ Redo

SpecLink == InitLink /\ [][NextLink]_vars

\* the ways to read the end of s as [text](url): the indices of the opening
\* bracket and of the closing bracket
LinkParses(s) ==
    LET n == Len(s)
    IN  { p \in (0..n) \X (0..n) :
            /\ CharAt(s, p[1]) = "["
            /\ p[2] >= p[1] + 2
            /\ \A x \in (p[1] + 1)..(p[2] - 1) : CharAt(s, x) # "["
            /\ CharAt(s, p[2]) = "]"
            /\ CharAt(s, p[2] + 1) = "("
            /\ n - 1 >= p[2] + 3
            /\ \A x \in (p[2] + 2)..(n - 2) : CharAt(s, x) # "("
            /\ CharAt(s, n - 1) = ")" }

\* the nodes that replace node when the pattern read as p, which ends at the
\* offset caret, becomes a link
LinkReplacement(node, caret, p) ==
    (IF p[1] = 0 THEN <<>> ELSE <<TextNode(Slice(node.text, 0, p[1]), node.format)>>)
    \o <<LinkNode(Slice(node.text, p[2] + 2, caret - 1),
                  <<TextNode(Slice(node.text, p[1] + 1, p[2]), {})>>)>>
    \o (IF caret >= Len(node.text) THEN <<>>
        ELSE <<TextNode(SliceFrom(node.text, caret), node.format)>>)

\* C13: the update listener makes a link only when the character before the
\* caret is a closing parenthesis; when the text up to the caret ends with
\* [text](url), that substring is replaced by a link node with the URL url
\* that holds one text node text, the text before the pattern and after the
\* caret stays; when no such pattern ends at the caret nothing is changed
C13LiveLink ==
    [][ (pc = "notify" /\ lastUpdate = "typed" /\ selection.type = "text") =>
          LET children == ParentChildren(root, selection)
              node == children[selection.child]
              caret == selection.offset
              parses == LinkParses(Slice(node.text, 0, caret))
          IN  /\ selection'.type = "link" => CharAt(node.text, caret - 1) = ")"
              /\ parses # {} =>
                    \E p \in parses :
                        root' = WithChildren(root, selection,
                                    ReplaceAt(children, selection.child,
                                              LinkReplacement(node, caret, p)))
              /\ parses = {} => root' = root ]_vars

\* a closing parenthesis was typed between "x[a](b" and "c": the paragraph
\* holds x, the link to b with the text a, and c
C13Witness ==
    /\ pc = "idle"
    /\ markdown = <<")">>
    /\ lastUpdate = "transformed"
    /\ root = <<ParagraphNode(<<TextNode(<<"x">>, {}),
                                LinkNode(<<"b">>, <<TextNode(<<"a">>, {})>>),
                                TextNode(<<"c">>, {})>>)>>

---------------------------------------------------------------------------
(* Block shortcuts: a text node that is the only child, the first child or *)
(* the second child of a paragraph, or the child of a list item, the caret *)
(* somewhere in its text, and at most MaxBlockTyped characters typed       *)

BlockBefore ==
    { <<"#">>,
      <<"#", "#">>,
      <<"#", "#", "#", "#", "#", "#", "#">>,
      <<">">>,
      <<"-">>,
      <<"1", ".">>,
      <<"1", "2">>,
      <<"-", "-", "-">>,
      <<"*", "*", "*">>,
      Fence,
      <<"|", "a", "|">>,
      <<"x">>,
      Repeat(<<" ">>, 18) \o <<"-">>,
      Repeat(<<" ">>, 19) \o <<"-">>,
      Repeat(<<" ">>, 18) \o <<"1", ".">> }

BlockAfter == { <<>>, <<"x">>, <<" ", "x">> }

BlockShapes == {"only", "first", "second", "item"}

BlockAlphabet == {" ", "\t", "-"}

MaxBlockTyped == 2

\* the editor with the text before \o after in a block of the given shape
\* and the caret between the two
CaretInBlock(shape, before, after) ==
    LET anchorNode == TextNode(before \o after, {})
        sibling == TextNode(<<"b">>, {"bold"})
    IN  /\ root = CASE shape = "only" -> <<ParagraphNode(<<anchorNode>>)>>
                    [] shape = "first" -> <<ParagraphNode(<<anchorNode, sibling>>)>>
                    [] shape = "second" -> <<ParagraphNode(<<sibling, anchorNode>>)>>
                    [] shape = "item" ->
                          <<ListNode("ul", 1, <<ListItemNode(0, <<anchorNode>>)>>)>>
        /\ selection = TextPoint(1, IF shape = "item" THEN 1 ELSE 0,
                                 IF shape = "second" THEN 2 ELSE 1, Len(before), {})
        /\ markdown = <<>>
        /\ lineIndex = 0
        /\ output = NoOutput
        /\ firstOutput = NoOutput
        /\ pc = "idle"
        /\ undoStack = <<>>
        /\ redoStack = <<>>
        /\ lastUpdate = "none"
        /\ registeredNodes = RequiredNodes
        /\ HighlightingIdle

InitBlocks ==
    \E shape \in BlockShapes, before \in BlockBefore, after \in BlockAfter :
        CaretInBlock(shape, before, after)

TypeBlocks == \E c \in BlockAlphabet : TypeChar(c, MaxBlockTyped)

NextBlocks == TypeBlocks \/ UpdateListener

SpecBlocks == InitBlocks /\ [][NextBlocks]_vars

\* a step of the update listener that converts the block of the caret: the
\* tree changes and the selection lies on an element
BlockConversion ==
    /\ pc = "notify"
    /\ root' # root
    /\ selection'.type \in {"element", "table"}

\* the parent of the caret's text node is a direct child of the root
ParentIsTopLevel == root[selection.block].type # "list"

TransformerOf(node) ==
    CASE node.type = "heading" -> "HEADING"
      [] node.type = "quote" -> "QUOTE"
      [] node.type = "code" -> "CODE"
      [] node.type = "list" /\ node.tag = "ul" -> "UNORDERED_LIST"
      [] node.type = "list" /\ node.tag = "ol" -> "ORDERED_LIST"
      [] node.type = "hr" -> "HR"
      [] node.type = "table" -> "TABLE"
      [] OTHER -> "none"

\* the block transformer whose node stands at the place of the caret's block
\* after a conversion
AppliedTransformer == TransformerOf(root'[selection.block])

\* the block transformers, by their place in the registration order, whose
\* match on text has exactly the length caret
ExactMatches(text, caret) ==
    {k \in DOMAIN BLOCK_TRANSFORMERS :
        LET match == BlockMatch(BLOCK_TRANSFORMERS[k], text)
        IN  match.found /\ match.length = caret}

\* C15: a live block conversion happens only if the caret offset is at most
\* 20, the character before the caret is a space and some block transformer
\* has a match of exactly the length of the caret offset; the transformer
\* applied is the first in registration order with such a match
C15BlockTrigger ==
    [][ BlockConversion =>
          LET text == ParentChildren(root, selection)[selection.child].text
              caret == selection.offset
              upToCaret == ExactMatches(Slice(text, 0, caret), caret)
              whole == ExactMatches(text, caret)
          IN  /\ caret <= 20
              /\ CharAt(text, caret - 1) = " "
              /\ upToCaret # {}
              /\ whole # {}
              /\ AppliedTransformer = BLOCK_TRANSFORMERS[Min(upToCaret)]
              /\ AppliedTransformer = BLOCK_TRANSFORMERS[Min(whole)] ]_vars

\* a space was typed after 18 spaces and a hyphen, at the offset 20: the
\* paragraph became an unordered list with one item of depth 4
C15Witness ==
    /\ pc = "idle"
    /\ markdown = <<" ">>
    /\ lastUpdate = "transformed"
    /\ root = <<ListNode("ul", 1, <<ListItemNode(4, <<>>)>>)>>

\* rootNode with the text after the caret replaced by tail
WithTail(rootNode, sel, tail) ==
    LET children == ParentChildren(rootNode, sel)
        anchorNode == children[sel.child]
    IN  WithChildren(rootNode, sel,
            [children EXCEPT ![sel.child] =
                TextNode(Slice(anchorNode.text, 0, sel.offset) \o tail,
                         anchorNode.format)])

\* what the block step decides: the transformer it applies, or none
BlockDecision(rootNode, sel) ==
    LET block == runBlockTransformersLive(rootNode, sel)
    IN  IF block.handled THEN TransformerOf(block.root[sel.block]) ELSE "none"

\* C16: whether the live block step converts, and with which transformer,
\* does not depend on the characters after the caret in the caret's text
\* node: the decision is the same for every text after the caret
C16TailIndependence ==
    (pc = "notify" /\ lastUpdate = "typed" /\ selection.type = "text") =>
        \A tail \in BlockAfter :
            BlockDecision(WithTail(root, selection, tail), selection)
                = BlockDecision(root, selection)

---------------------------------------------------------------------------
(* The update listener and its own updates: a paragraph with tags that     *)
(* were typed in any order, the caret at the end of its text, and at most  *)
(* MaxCascadeTyped characters typed                                        *)

CascadeBefore ==
    { <<"_", "x", " ", "*", "*", "a", "_", "*">>,
      <<"_", "x", " ", "*", "*", "a", "_">>,
      <<"*", "*", "a", "*">>,
      <<"*", "a">>,
      <<"_", "a">>,
      <<"#">>,
      <<"a">> }

CascadeAlphabet == {"*", "_", "a", " "}

MaxCascadeTyped == 2

InitCascade == \E before \in CascadeBefore : CaretInText(before, <<>>)

TypeCascade == \E c \in CascadeAlphabet : TypeChar(c, MaxCascadeTyped)

NextCascade == TypeCascade \/ UpdateListener \/ Undo \/ Redo

SpecCascade == InitCascade /\ [][NextCascade]_vars

\* C17: the update listener makes no transformation for the update that a
\* live transformation produced, so that at most one transformation is
\* applied per keystroke
C17NoTransformOfOwnOutput ==
    [][ (pc = "notify" /\ lastUpdate = "transformed") => root' = root ]_vars

---------------------------------------------------------------------------
(* Installing the live transformer: an editor created with any set of the  *)
(* node kinds the transformers create, registerMarkdownPlugin called on    *)
(* it, and at most MaxInstallTyped characters typed afterwards.  What the  *)
(* document model does with a node of a kind the editor does not know is   *)
(* not part of the Markdown sources: editing is followed on editors that   *)
(* know every kind.                                                        *)

InstallAlphabet == {"#", " ", "a"}

MaxInstallTyped == 2

\* the editor is created with the node kinds nodes; nothing is installed
InitInstall ==
    /\ registeredNodes \in SUBSET RequiredNodes
    /\ HighlightingIdle
    /\ markdown = <<>>
    /\ lineIndex = 0
    /\ root = <<ParagraphNode(<<>>)>>
    /\ output = NoOutput
    /\ firstOutput = NoOutput
    /\ pc = "created"
    /\ selection = ElementPoint(1, 0, 0, {})
    /\ undoStack = <<>>
    /\ redoStack = <<>>
    /\ lastUpdate = "none"

\* registerMarkdownPlugin(editor, blockTransformers, textTransformers): the
\* index of the text transformers is built and the update listener is
\* registered; the editor's node kinds are not looked at
registerMarkdownPlugin ==
    /\ pc = "created"
    /\ pc' = "idle"
    /\ UNCHANGED <<markdown, lineIndex, root, output, firstOutput, liveVars>>

TypeInstall ==
    /\ registeredNodes = RequiredNodes
    /\ \E c \in InstallAlphabet : TypeChar(c, MaxInstallTyped)

NextInstall == registerMarkdownPlugin \/ TypeInstall \/ UpdateListener

SpecInstall == InitInstall /\ [][NextInstall]_vars

\* C18: installing the live transformer on an editor that lacks a node kind
\* the transformers need reports a configuration error at install time,
\* before any editing update is processed
C18InstallReportsMissingNodes ==
    [][ (pc = "created" /\ registeredNodes # RequiredNodes) =>
            pc' = "configuration error" ]_vars

\* C19: when the importer stands at a line that matches the fence pattern
\* and no later line matches it, no code block is made for the line: the
\* step appends a paragraph whose text is the line, with or without a
\* language tag or a trailing whitespace character
C19UnclosedFenceIsText ==
    [][ LET lines == Split(Input, "\n")
        IN  (/\ pc = "importing"
             /\ lineIndex < Len(lines)
             /\ IsFenceLine(lines[lineIndex + 1])
             /\ LaterFences(lines, lineIndex) = {}) =>
                /\ Len(root') = Len(root) + 1
                /\ SubSeq(root', 1, Len(root)) = root
                /\ root'[Len(root')].type = "paragraph"
                /\ TextContent(root'[Len(root')].children) = lines[lineIndex + 1]
      ]_vars

---------------------------------------------------------------------------
(* Nesting depth: documents of at most MaxDepthLines lines, list lines of  *)
(* both kinds with 0 to 8 leading spaces or with leading tabs, and a line   *)
(* that is no list line                                                    *)

DepthLines ==
    { <<"-", " ", "a">>,
      <<" ", " ", "-", " ", "b">>,
      <<" ", " ", " ", " ", "-", " ", "c">>,
      <<" ", " ", " ", " ", " ", "-", " ", "d">>,
      <<" ", " ", " ", " ", " ", " ", " ", " ", "-", " ", "e">>,
      <<"1", ".", " ", "f">>,
      <<" ", " ", " ", " ", "1", ".", " ", "g">>,
      <<"\t", "\t", "\t", "\t", "-", " ", "h">>,
      <<"x">> }

MaxDepthLines == 3

InitDepth == ImportInit(Documents(DepthLines, MaxDepthLines))
SpecDepth == InitDepth /\ [][NextImport]_vars

\* depth = floor(leading-space-count / 4)
LineDepth(line) == LeadingRun(line, {" "}) \div 4

\* the depth listReplace computes: floor(leading whitespace characters / 4)
WhitespaceDepth(line) == LeadingRun(line, Whitespace) \div 4

\* the importer stands at a list line
AtListLine ==
    LET lines == Split(Input, "\n")
    IN  /\ pc = "importing"
        /\ lineIndex < Len(lines)
        /\ ListKind(lines[lineIndex + 1]) # "other"

\* the node before the line is a list of the kind of the line
AfterListOfKind ==
    /\ root # <<>>
    /\ root[Len(root)].type = "list"
    /\ root[Len(root)].tag = ListKind(Split(Input, "\n")[lineIndex + 1])

\* the depth of the list before the line: that of its last item
PrecedingDepth == root[Len(root)].items[Len(root[Len(root)].items)].indent

\* the step appended an item to the list before the line
AppendedToList ==
    /\ Len(root') = Len(root)
    /\ Len(root'[Len(root)].items) = Len(root[Len(root)].items) + 1

\* the step started a list after the nodes before the line
StartedList ==
    /\ Len(root') = Len(root) + 1
    /\ root'[Len(root')].type = "list"
    /\ Len(root'[Len(root')].items) = 1

\* C20 as claimed: a list line is appended to the list right before it only
\* when that list has the kind and the nesting depth of the line; a list
\* line of another depth starts a new list
C20SameDepthOnly ==
    [][ AtListLine =>
          LET line == Split(Input, "\n")[lineIndex + 1]
          IN  IF AfterListOfKind /\ PrecedingDepth = LineDepth(line)
              THEN AppendedToList
              ELSE StartedList ]_vars

\* C20: a list line is appended to the list right before it exactly when
\* that list has the kind of the line, whatever the depths; otherwise it
\* starts a new list; the item gets the depth
\* floor(leading whitespace characters / 4)
C20SameKind ==
    [][ AtListLine =>
          LET line == Split(Input, "\n")[lineIndex + 1]
              list == root'[Len(root')]
              item == list.items[Len(list.items)]
          IN  /\ IF AfterListOfKind THEN AppendedToList ELSE StartedList
              /\ list.tag = ListKind(line)
              /\ item.indent = WhitespaceDepth(line)
              /\ TextContent(item.children) = ListItemText(line) ]_vars

\* "- a" and a line "- c" after four spaces were imported: one unordered
\* list with an item of depth 0 and an item of depth 1
C20Witness ==
    /\ pc = "imported"
    /\ markdown = <<"-", " ", "a", "\n", " ", " ", " ", " ", "-", " ", "c">>
    /\ firstOutput = NoOutput
    /\ Len(root) = 1
    /\ root[1].type = "list"
    /\ root[1].tag = "ul"
    /\ Len(root[1].items) = 2
    /\ root[1].items[1].indent = 0
    /\ root[1].items[2].indent = 1

---------------------------------------------------------------------------
(* Export of inline siblings: a paragraph of at most MaxSiblings inline    *)
(* nodes: plain and formatted text, line breaks, links with one child and  *)
(* with two children                                                       *)

InlineNodes ==
    { TextNode(<<"a">>, {}),
      TextNode(<<"b">>, {"bold"}),
      TextNode(<<"c">>, {"bold", "italic"}),
      LineBreakNode,
      LinkNode(<<"u">>, <<TextNode(<<"d">>, {"bold"})>>),
      LinkNode(<<"u">>, <<TextNode(<<"e">>, {"bold"}), TextNode(<<"f">>, {})>>) }

MaxSiblings == 3

InitSiblings ==
    /\ markdown = <<>>
    /\ lineIndex = 0
    /\ \E children \in SeqsUpTo(InlineNodes, MaxSiblings) :
           root = <<ParagraphNode(children)>>
    /\ output = NoOutput
    /\ firstOutput = NoOutput
    /\ pc = "imported"
    /\ selection = RootEnd
    /\ undoStack = <<>>
    /\ redoStack = <<>>
    /\ lastUpdate = "none"
    /\ registeredNodes = RequiredNodes
    /\ HighlightingIdle

SpecSiblings == InitSiblings /\ [][NextImport]_vars

\* C21: exportMarkdown returns on every document tree: the search for the
\* text sibling before and after a formatted text node ends, also next to
\* a line-break node; the driver is never left in the exporter
C21ExportTerminates == pc # "exporting"

---------------------------------------------------------------------------
(* Nested tags: at most MaxNestedTyped characters are typed into the empty *)
(* editor, the plugin converting as they come, and the characters typed    *)
(* are handed to the importer as one line                                  *)

NestedAlphabet == {"*", "_", "a"}
MaxNestedTyped == 5

TypeNested == \E c \in NestedAlphabet : TypeChar(c, MaxNestedTyped)

NextNested ==
    \/ TypeNested
    \/ UpdateListener
    \/ ImportBegin
    \/ ImportLine
    \/ ImportEnd

InitNested == ImportInit({<<>>})
SpecNested == InitNested /\ [][NextNested]_vars

\* nodes with the formats added to each text node, the text nodes of a
\* link included
AddFormats(nodes, formats) ==
    [i \in 1..Len(nodes) |->
        IF IsTextNode(nodes[i])
        THEN [nodes[i] EXCEPT !.format = @ \cup formats]
        ELSE IF IsLinkNode(nodes[i])
        THEN [nodes[i] EXCEPT !.children =
                 [j \in 1..Len(@) |->
                     IF IsTextNode(@[j])
                     THEN [@[j] EXCEPT !.format = @ \cup formats]
                     ELSE @[j]]]
        ELSE nodes[i]]

\* the runs the content of a matched pair gives on its own: one run when the
\* pair makes inline code
InnerRuns(content, formats) ==
    IF "code" \in formats THEN <<TextNode(content, {})>>
    ELSE runTextTransformers(TextNode(content, {}))

\* the runs the importer made of the content of the first pair it matched
\* in the line are the runs the content gives on its own, each with the
\* formats of the pair added
ImportKeepsFormats ==
    (pc = "imported" /\ FirstBlockMatch(Input) = 0) =>
        \A match \in {findOutermostMatch(Input)} :
            match.found =>
                \A formats \in {Range(byTag(match.tag).format)},
                   k \in {IF match.index = 0 THEN 1 ELSE 2} :
                    \A inner \in {InnerRuns(match.content, formats)} :
                        /\ Len(root[1].children) >= k + Len(inner) - 1
                        /\ SubSeq(root[1].children, k, k + Len(inner) - 1)
                               = AddFormats(inner, formats)

\* a live conversion took a tag of n characters away at the index open and
\* right before the caret: every other character of the block is still
\* there with at least the formats it had, and the characters between the
\* two tags have the formats of the tag
KeepsFormats(transformer, open, caret, before, after) ==
    LET n == Len(transformer.tag)
        close == caret - n
    IN  /\ open + n <= close
        /\ Len(after) = Len(before) - 2 * n
        /\ \A p \in 1..Len(before) :
              LET q == IF p <= open THEN p
                       ELSE IF p <= close THEN p - n
                       ELSE p - 2 * n
              IN  (p <= open \/ (p > open + n /\ p <= close) \/ p > caret)
                  => /\ after[q].char = before[p].char
                     /\ before[p].format \subseteq after[q].format
                     /\ (p > open /\ p <= close)
                        => Range(transformer.format) \subseteq after[q].format

LiveKeepsFormats ==
    InlineConversion =>
        \A before \in {Characters(ParentChildren(root, selection))},
           after \in {Characters(ParentChildren(root', selection'))},
           caret \in {CaretPosition(root, selection)} :
            \E t \in DOMAIN TEXT_TRANSFORMERS, open \in 0..Len(before) :
                KeepsFormats(TEXT_TRANSFORMERS[t], open, caret, before, after)

---------------------------------------------------------------------------
(* Typing behind siblings: the caret is at the end of the last text node   *)
(* of a paragraph that holds at most MaxNeighbours nodes before it: text   *)
(* with an opening tag, plain or of format code, a line break, a link      *)
(* whose text holds an opening tag, bold text                              *)

NeighbourNodes ==
    { TextNode(<<"*", "b">>, {}),
      TextNode(<<"*", "c">>, {"code"}),
      TextNode(<<"d">>, {"bold"}),
      LineBreakNode,
      LinkNode(<<"u">>, <<TextNode(<<"*", "e">>, {})>>) }

CaretNodes == { TextNode(<<"a">>, {}), TextNode(<<"*", "a">>, {"code"}) }

NeighbourAlphabet == {"*", "a"}

MaxNeighbours == 2
MaxNeighbourTyped == 2

\* no two text nodes of the same formats are next to each other: the
\* editor merges such nodes
Normalized(children) ==
    \A i \in 1..(Len(children) - 1) :
        (IsTextNode(children[i]) /\ IsTextNode(children[i + 1]))
            => children[i].format # children[i + 1].format

InitNeighbours ==
    /\ \E siblings \in SeqsUpTo(NeighbourNodes, MaxNeighbours), node \in CaretNodes :
          /\ Normalized(Append(siblings, node))
          /\ root = <<ParagraphNode(Append(siblings, node))>>
          /\ selection = TextPoint(1, 0, Len(siblings) + 1, Len(node.text),
                                   node.format)
    /\ markdown = <<>>
    /\ lineIndex = 0
    /\ output = NoOutput
    /\ firstOutput = NoOutput
    /\ pc = "idle"
    /\ undoStack = <<>>
    /\ redoStack = <<>>
    /\ lastUpdate = "none"
    /\ registeredNodes = RequiredNodes
    /\ HighlightingIdle

TypeNeighbours == \E c \in NeighbourAlphabet : TypeChar(c, MaxNeighbourTyped)

NextNeighbours == TypeNeighbours \/ UpdateListener

SpecNeighbours == InitNeighbours /\ [][NextNeighbours]_vars

\* the number of the last line break before the node of the caret, 0 when
\* there is none
LastBreak(children, closeNode) ==
    Max({0} \cup {i \in 1..(closeNode - 1) : IsLineBreakNode(children[i])})

\* the character c occurs in a text node of children from node number i
\* to the caret, the character right before the caret aside
OccursBeforeCaret(c, children, i, sel) ==
    \E j \in i..sel.child :
        /\ IsTextNode(children[j])
        /\ \E x \in 1..Len(children[j].text) :
              /\ children[j].text[x] = c
              /\ ~(j = sel.child /\ x >= sel.offset)

\* C23: the backward search of the live detector does not cross a line
\* break: a step of the update listener leaves the nodes up to the last
\* line break before the caret as they are, and it changes nothing when
\* the character before the caret occurs nowhere else behind that break
C23NoSearchAcrossLineBreak ==
    [][ (/\ pc = "notify"
         /\ selection.type = "text"
         /\ LastBreak(ParentChildren(root, selection), selection.child) > 0) =>
            LET children == ParentChildren(root, selection)
                after == ParentChildren(root', selection)
                break == LastBreak(children, selection.child)
                node == children[selection.child]
            IN  /\ Len(after) >= break
                /\ SubSeq(after, 1, break) = SubSeq(children, 1, break)
                /\ ~OccursBeforeCaret(CharAt(node.text, selection.offset - 1),
                                      children, break + 1, selection)
                   => root' = root ]_vars

\* a star was typed behind "*b", a line break and "a": both stars are text
C23Witness ==
    /\ pc = "idle"
    /\ markdown = <<"*">>
    /\ lastUpdate = "typed"
    /\ root = <<ParagraphNode(<<TextNode(<<"*", "b">>, {}),
                                LineBreakNode,
                                TextNode(<<"a", "*">>, {})>>)>>

\* the URL and the text of each link of children, in order
LinkTexts(children) ==
    LET links == SelectSeq(children, IsLinkNode)
    IN  [i \in 1..Len(links) |->
            [url |-> links[i].url, text |-> TextContent(links[i].children)]]

\* text holds one star, which has a character other than a space behind it
StarOpens(text) ==
    \E x \in 1..(Len(text) - 1) :
        /\ text[x] = "*"
        /\ text[x + 1] # " "
        /\ \A y \in 1..Len(text) : text[y] = "*" => y = x

\* the character before the caret is the only star of the text node of the
\* caret up to there, behind a character that is not a space; the node is
\* not of format code
StarCloses(children, sel) ==
    LET text == children[sel.child].text
    IN  /\ sel.type = "text"
        /\ "code" \notin children[sel.child].format
        /\ sel.offset >= 2
        /\ text[sel.offset] = "*"
        /\ text[sel.offset - 1] \notin {" ", "*"}
        /\ \A y \in 1..(sel.offset - 1) : text[y] # "*"

\* C24 as stated: an opening star in the text of a link right before the
\* text node of the closing star is found, so the two are converted
C24OpenTagInsideLinkFound ==
    [][ LET children == ParentChildren(root, selection)
        IN  (/\ pc = "notify"
             /\ lastUpdate = "typed"
             /\ StarCloses(children, selection)
             /\ selection.child > 1
             /\ IsLinkNode(children[selection.child - 1])
             /\ StarOpens(TextContent(children[selection.child - 1].children)))
            => root' # root ]_vars

\* C24: the backward search of the live detector passes over a link without
\* searching its text: no step of the update listener changes the text of
\* a link, an opening star inside the link right before the closing star
\* is converted only with an opening star in a text node before the link,
\* and an opening star in the text node right before the link is converted
C24LinkPassedOver ==
    [][ LET children == ParentChildren(root, selection)
            after == ParentChildren(root', selection)
            link == selection.child - 1
        IN  (/\ pc = "notify"
             /\ lastUpdate = "typed"
             /\ StarCloses(children, selection)
             /\ link >= 1
             /\ IsLinkNode(children[link]))
            => /\ LinkTexts(after) = LinkTexts(children)
               /\ root' # root
                  => \E j \in 1..(link - 1) :
                        /\ IsTextNode(children[j])
                        /\ \E x \in 1..Len(children[j].text) :
                              children[j].text[x] = "*"
               /\ (/\ link >= 2
                   /\ IsTextNode(children[link - 1])
                   /\ StarOpens(children[link - 1].text))
                  => root' # root ]_vars

\* a star was typed behind "*b", a link of text "*e" and "a": the stars of
\* the text nodes are gone, the star in the link is still there
C24Witness ==
    /\ pc = "idle"
    /\ markdown = <<"*">>
    /\ lastUpdate = "transformed"
    /\ root = <<ParagraphNode(<<TextNode(<<"b">>, {"italic"}),
                                LinkNode(<<"u">>,
                                         <<TextNode(<<"*", "e">>, {"italic"})>>),
                                TextNode(<<"a">>, {"italic"})>>)>>

---------------------------------------------------------------------------
(* The steps of the transform, each on its own                             *)

\* a step that returned false left the tree and the selection as they were
Untouched(step) ==
    ~step.handled => (step.root = root /\ step.selection = selection)

\* C25: whenever the block step, the link step or the inline step of the
\* transform returns false for the tree and the caret of a committed
\* update, the tree and the selection it leaves are the ones it was given
C25RejectedStepChangesNothing ==
    (pc = "notify" /\ selection.type = "text") =>
        /\ Untouched(runBlockTransformersLive(root, selection))
        /\ Untouched(runLinkTransform(root, selection))
        /\ Untouched(runTextTransformersLive(root, selection))

\* "**a*" was typed: the last star has a star before its opening star, the
\* three steps returned false and the four characters are plain text
C25Witness ==
    /\ pc = "idle"
    /\ markdown = <<"*", "*", "a", "*">>
    /\ redoStack = <<>>
    /\ lastUpdate = "typed"
    /\ ~runTextTransformersLive(root, selection).handled
    /\ root = <<ParagraphNode(<<TextNode(<<"*", "*", "a", "*">>, {})>>)>>

---------------------------------------------------------------------------
(* Tables: at most MaxTableLines lines, each a table row of one or of two  *)
(* cells, a line of text or an empty line                                  *)

TableLines ==
    { <<"|", "a", "|">>,
      <<"|", "b", "|", "c", "|">>,
      <<"a">>,
      <<>> }

MaxTableLines == 3

InitTables ==
    ImportInit({Join(ls, <<"\n">>) : ls \in SeqsUpTo(TableLines, MaxTableLines) \ {<<>>}})
SpecTables == InitTables /\ [][NextImport]_vars

\* the texts between the bars of a table-row line
RowTexts(line) == Split(SubSeq(line, 2, Len(line) - 1), "|")

\* the line starts and ends with a bar and has something between the two
IsRowLine(line) ==
    Len(line) >= 3 /\ line[1] = "|" /\ line[Len(line)] = "|"

\* C26: in bulk import two or more lines that are all table rows become
\* the rows of one table, each row with as many cells as the longest of
\* the lines has, the cells a line does not have being empty
C26RowsOfOneTable ==
    LET lines == Split(Input, "\n")
        n == Len(lines)
        widest == Max({Len(RowTexts(lines[r])) : r \in 1..n})
    IN  (/\ pc = "imported"
         /\ n >= 2
         /\ \A r \in 1..n : IsRowLine(lines[r]))
        => /\ Len(root) = 1
           /\ root[1].type = "table"
           /\ Len(root[1].rows) = n
           /\ \A r \in 1..n :
                 /\ Len(root[1].rows[r]) = widest
                 /\ \A c \in 1..widest :
                       root[1].rows[r][c]
                           = IF c <= Len(RowTexts(lines[r]))
                             THEN <<TextNode(RowTexts(lines[r])[c], {})>>
                             ELSE <<>>

\* the text nodes exportChildren hands to exportTextNode for children: the
\* text children, and the text child of a link that has no other child;
\* each with the text sibling before and after it
ExportedTexts(children) ==
    { [node |-> children[i],
       previous |-> getTextSibling(children, i, <<>>, 0, TRUE).node,
       next |-> getTextSibling(children, i, <<>>, 0, FALSE).node, at |-> i] :
          i \in {j \in 1..Len(children) : IsTextNode(children[j])} }
    \cup
    { [node |-> children[i].children[1],
       previous |-> getTextSibling(children[i].children, 1, children, i, TRUE).node,
       next |-> getTextSibling(children[i].children, 1, children, i, FALSE).node,
       at |-> i] :
          i \in {j \in 1..Len(children) :
                    /\ IsLinkNode(children[j])
                    /\ Len(children[j].children) = 1
                    /\ IsTextNode(children[j].children[1])} }

\* the number of opening tags of format in the export of children
OpeningTags(children, format) ==
    Cardinality({t \in ExportedTexts(children) :
                    hasFormat(t.node, format) /\ ~hasFormat(t.previous, format)})

\* the number of closing tags of format in the export of children
ClosingTags(children, format) ==
    Cardinality({t \in ExportedTexts(children) :
                    hasFormat(t.node, format) /\ ~hasFormat(t.next, format)})

\* C27: in the export of the children of a paragraph there are as many
\* opening tags as closing tags of every format, also when a formatted run
\* is next to a link of more than one child
C27DelimiterBalance ==
    pc \in {"ready", "done"} =>
        \A b \in DOMAIN root :
            root[b].type = "paragraph" =>
                \A k \in DOMAIN ExportIndex :
                    OpeningTags(root[b].children, ExportIndex[k].format)
                        = ClosingTags(root[b].children, ExportIndex[k].format)

---------------------------------------------------------------------------
(* Several pairs on a line: one line of at most MaxPairPieces pieces       *)

PairPieces ==
    { <<"a", "*", " ">>,
      <<"_", "b", "_">>,
      <<"*", "c", "*">>,
      <<" ">>,
      <<"*">> }

MaxPairPieces == 4

InitPairs ==
    ImportInit({Concat(ps) : ps \in SeqsUpTo(PairPieces, MaxPairPieces)})
SpecPairs == InitPairs /\ [][NextImport]_vars

RECURSIVE TextNodes(_)
\* the text nodes among children, those of the links included
TextNodes(children) ==
    IF children = <<>> THEN {}
    ELSE (IF IsTextNode(Head(children)) THEN {Head(children)}
          ELSE IF IsLinkNode(Head(children)) THEN TextNodes(Head(children).children)
          ELSE {})
         \cup TextNodes(Tail(children))

\* C28: after the import of a line as a paragraph, no text node that is not
\* of format code holds a substring that the full-match pattern of a
\* registered tag matches (of "a* _b_ *c*" no literal _b_ is left)
C28NoPairLeft ==
    (/\ pc = "imported"
     /\ Len(root) = 1
     /\ root[1].type = "paragraph")
    => \A node \in TextNodes(root[1].children) :
          "code" \notin node.format
              => \A k \in DOMAIN TEXT_TRANSFORMERS :
                    ~FullMatchRegExp(node.text, TEXT_TRANSFORMERS[k].tag).found

\* the text nodes of format code among children, in order
CodeRuns(children) ==
    SelectSeq(children, LAMBDA node : IsTextNode(node) /\ "code" \in node.format)

\* C29: a step of the update listener leaves the text and the formats of
\* every text node of format code of the block of the caret as they are,
\* also of one that lies before the text node of the caret, and it changes
\* nothing when the caret is in a text node of format code or in a code
\* block
C29CodeIsLeftAlone ==
    [][ (pc = "notify" /\ selection.type = "text") =>
            LET children == ParentChildren(root, selection)
                after == ParentChildren(root', selection)
            IN  /\ CodeRuns(after) = CodeRuns(children)
                /\ ("code" \in children[selection.child].format
                    \/ root[selection.block].type = "code")
                   => root' = root ]_vars

---------------------------------------------------------------------------
(* Code highlighting (lexical-code): the transforms registerCodeHighlighting *)
(* registers, run by the update cycle that imported a document of at most  *)
(* MaxCodeBlocks blocks: a fenced block without a language, a fenced block *)
(* tagged js, a line of text                                               *)

DEFAULT_CODE_LANGUAGE == <<"j", "a", "v", "a", "s", "c", "r", "i", "p", "t">>

\* a line of a highlighted code block
CodeLineNode(text) == [type |-> "codeline", text |-> text]

RECURSIVE SingleNewlines(_)
\* code.replace(/\n\n/g, '\n')
SingleNewlines(code) ==
    IF Len(code) < 2 THEN code
    ELSE IF code[1] = "\n" /\ code[2] = "\n"
    THEN <<"\n">> \o SingleNewlines(SubSeq(code, 3, Len(code)))
    ELSE <<code[1]>> \o SingleNewlines(Tail(code))

\* getLinesNodes(tokens): one line node for each line of the code
getLinesNodes(code) ==
    LET lines == Split(code, "\n")
    IN  [i \in 1..Len(lines) |-> CodeLineNode(lines[i])]

CodeBlocks ==
    { Fence \o <<"\n", "a", "\n">> \o Fence,
      Fence \o <<"j", "s", "\n", "b", "\n">> \o Fence,
      <<"c">> }

MaxCodeBlocks == 3

InitHighlighting ==
    ImportInit({Join(bs, <<"\n">>) : bs \in SeqsUpTo(CodeBlocks, MaxCodeBlocks) \ {<<>>}})

\* the function of the importing update has returned: the nodes it made
\* are dirty, the update cycle runs the transforms of the dirty nodes
TransformsBegin ==
    /\ pc = "imported"
    /\ pc' = "transforms"
    /\ dirtyElements' = {b \in DOMAIN root : root[b].type = "code"}
    /\ UNCHANGED <<markdown, lineIndex, root, output, firstOutput, selection,
                   undoStack, redoStack, lastUpdate, registeredNodes,
                   isHighlighting, updates>>

\* codeNodeTransform(node, editor) for the dirty code node at index b: the
\* nested update is queued behind the transforms of the cycle
codeNodeTransform(b) ==
    /\ pc = "transforms"
    /\ b \in dirtyElements
    /\ dirtyElements' = dirtyElements \ {b}
    /\ IF isHighlighting
       THEN UNCHANGED <<root, isHighlighting, updates>>
       ELSE /\ isHighlighting' = TRUE
            \* When new code block inserted it might not have language selected
            /\ root' = IF root[b].language = Undefined
                       THEN [root EXCEPT ![b].language = DEFAULT_CODE_LANGUAGE]
                       ELSE root
            /\ updates' = Append(updates, b)
    /\ UNCHANGED <<markdown, lineIndex, output, firstOutput, pc, selection,
                   undoStack, redoStack, lastUpdate, registeredNodes>>

\* the nested update of codeNodeTransform runs, transforms skipped: the
\* code of the node is tokenized and the node gets its lines
HighlightingUpdate ==
    /\ pc = "transforms"
    /\ dirtyElements = {}
    /\ updates # <<>>
    /\ LET b == Head(updates)
       IN  root' = [root EXCEPT ![b].children =
                       getLinesNodes(SingleNewlines(TextContent(root[b].children)))]
    /\ updates' = Tail(updates)
    /\ UNCHANGED <<markdown, lineIndex, output, firstOutput, pc, selection,
                   undoStack, redoStack, lastUpdate, registeredNodes,
                   isHighlighting, dirtyElements>>

\* the cycle is committed; onUpdate of the nested update runs when there
\* was one
Commit ==
    /\ pc = "transforms"
    /\ dirtyElements = {}
    /\ updates = <<>>
    /\ pc' = "highlighted"
    /\ isHighlighting' = FALSE
    /\ UNCHANGED <<markdown, lineIndex, root, output, firstOutput, selection,
                   undoStack, redoStack, lastUpdate, registeredNodes,
                   dirtyElements, updates>>

NextHighlighting ==
    \/ ImportBegin
    \/ ImportLine
    \/ ImportEnd
    \/ TransformsBegin
    \/ \E b \in DOMAIN root : codeNodeTransform(b)
    \/ HighlightingUpdate
    \/ Commit

SpecHighlighting == InitHighlighting /\ [][NextHighlighting]_vars

\* the code node has its lines
IsHighlighted(node) ==
    \A i \in DOMAIN node.children : node.children[i].type = "codeline"

\* C30: when the update cycle that ran the code-node transforms is over,
\* every code block has a language and its lines, also when the cycle ran
\* the transform for two code blocks, and isHighlighting is false again
C30EveryCodeBlockHighlighted ==
    pc = "highlighted" =>
        /\ isHighlighting = FALSE
        /\ \A b \in DOMAIN root :
              root[b].type = "code" =>
                  /\ root[b].language # Undefined
                  /\ IsHighlighted(root[b])
===========================================================================
